---- MODULE Spec2Model ----
(***************************************************************************)
(* A model of the BarCat sidebar's ordering-reconciliation and membership  *)
(* engine (sidebar.js = src/unnamed/part_002, domManager.js =              *)
(* src/unnamed/part_001, utils.js, localstorage.js inside background.js).  *)
(*                                                                         *)
(* The host browser is modelled by what the sidebar can observe of it:     *)
(* which tabs are open, the tab-group each is in, and the order of the     *)
(* tabs inside each group.                                                 *)
(***************************************************************************)
EXTENDS Integers, Sequences, FiniteSets, TLC

\* ------------------------------------------------------------------ bounds
MaxTabs == 3        \* tab ids the host hands out in one session: 1..MaxTabs
MaxGroups == 2      \* tab-group ids the host hands out: 1..MaxGroups
MaxUrls == 2        \* distinct page URLs
MaxNames == 3       \* distinct space names / bookmark-folder titles
MaxEvents == 4      \* user and host events handled in one session
MaxProcs == 2       \* pin / unpin commands that can be in progress at once
MaxPasses == 2      \* reconciliation passes that can be in progress at once
MaxMoveEvents == 2  \* drags and pin commands in one session of move events
MaxFlagEvents == 3  \* creation and bookmark-opening sequences started in one session
MaxRetryAttempts == 12  \* the attempt ceiling of reconcileSpaceTabOrdering's retries
MaxRetryEvents == 2 \* reconciliation requests in one session of retries
MaxRetries == 1     \* retries of a pass whose move the host refused (the code allows 12)
MaxTitles == 2      \* page titles
MaxFolders == 3     \* folders under the bookmark root at startup
MaxFolderTitles == 2 \* titles of the folders under the root
MaxDates == 2       \* creation times of the folders under the root
MaxChildren == 2    \* children of one folder under the root
MaxNodes == 2       \* children of all the folders under the root together
MaxMergeRuns == 2   \* runs of mergeDuplicateSpaceFolders in one session
MaxFailAt == 2      \* the host can refuse the first, ..., MaxFailAt-th call of a run
MaxIdleMinutes == 2 \* autoArchiveIdleMinutes is 0..MaxIdleMinutes
MaxMinutes == 2     \* minutes the clock moves on in one session of the auto-archive
MaxNewUrls == 2     \* URLs archived in a session that the archive did not hold
MaxTicks == 1       \* milliseconds the clock moves on in one session of the archive
MaxArchiveCalls == 2 \* calls of the archive functions in one session
MaxSyncTimers == 2  \* time-to-live timers of markTabsSyncingToChrome pending at once

Tabs == 1..MaxTabs
Groups == 1..MaxGroups
Urls == 1..MaxUrls
Names == 1..MaxNames
Procs == 1..MaxProcs
Titles == 1..MaxTitles
Null == 0           \* JavaScript's null / undefined, which no id, URL or index equals
NoTab == Null
NoSpace == Null     \* also "the tab is in no group"
NoUrl == Null
NoInfo == Null      \* no moveInfo
NoName == Null      \* the empty string as a name
NoBookmark == Null  \* no bookmark id

\* A bookmark: its id, its URL and its title.
Bookmark(id, url, title) == [id |-> id, url |-> url, title |-> title]

\* No entry for a tab in the stored Pinned Tab States.
NoState == [stored |-> FALSE, pinnedUrl |-> NoUrl, bookmarkId |-> NoBookmark]

\* ----------------------------------------------------------- sequence helpers
Includes(seq, x) == \E i \in DOMAIN seq : seq[i] = x
Without(seq, x) == SelectSeq(seq, LAMBDA y : y # x)
SeqSet(seq) == {seq[i] : i \in DOMAIN seq}
IndexOf(seq, x) == IF Includes(seq, x)
                   THEN CHOOSE i \in DOMAIN seq : seq[i] = x /\ \A j \in 1..(i-1) : seq[j] # x
                   ELSE 0
InsertAt(seq, p, x) == SubSeq(seq, 1, p - 1) \o <<x>> \o SubSeq(seq, p, Len(seq))

\* F(v), with v worked out once however often F refers to it.
With(v, F(_)) == CHOOSE r \in {F(x) : x \in {v}} : TRUE

RECURSIVE UniqFrom(_, _)
UniqFrom(ids, out) ==
    IF ids = <<>> THEN out
    ELSE LET id == Head(ids) IN
         IF id = NoTab \/ Includes(out, id) THEN UniqFrom(Tail(ids), out)
         ELSE UniqFrom(Tail(ids), Append(out, id))

\* uniqPreserveOrder: drop falsy ids and later repeats, keep first occurrences.
uniqPreserveOrder(ids) == UniqFrom(ids, <<>>)

\* ------------------------------------------------------------------- state
VARIABLES
    spaces,            \* the in-memory array of space records
    storedSpaces,      \* chrome.storage.local 'spaces', as last written by saveSpaces
    activeSpaceId,
    isCreatingSpace,
    isOpeningBookmark,
    groupTabs,         \* host: the tabs of each tab-group, in index order
    ungrouped,         \* host: open tabs that are in no group
    tabUrl,            \* host: URL of each open tab (NoUrl when not open)
    nextTabId,         \* host: the id the next created tab gets
    nextGroupId,       \* host: the id the next created tab-group gets
    spaceElements,     \* DOM: ids of the rendered .space elements
    rows,              \* DOM: live tab rows [section, tabId]
    bookmarkOnly,      \* DOM: URLs of the bookmark-only placeholder rows
    folders,           \* bookmark folders under the root: title -> the folders of that title,
                       \* each the sequence of its bookmarks [url, title]
    nextBookmarkId,    \* host: the id the next created bookmark gets
    pinnedTabStates,   \* chrome.storage.local 'pinnedTabStatesById': tab id -> its state
    lastOp,            \* the handler that ran last, and what it did
    events,            \* how many events the session has handled
    pins,              \* the pin / unpin commands in progress, each at one of its awaits
    pendingTabMoves,   \* tab id -> moveInfo of its pending debounced move (NoInfo: no entry)
    debounceTimers,    \* tab id -> debounce timers set for it and neither fired nor cleared
    processingTabMoves,
    syncingToChrome,
    syncTimers,        \* the time-to-live timers of markTabsSyncingToChrome that have
                       \* not fired yet, in the order they were set
    passes,            \* the reconciliation passes in progress
    echoes,            \* onMoved events of extension-issued moves, not delivered yet
    movingToSpace,     \* tabs with a moveTabToSpace call between its first and last line
    lastMove,          \* the last onMoved event handled, and what handleTabMove did with it
    lastRun,           \* the last run of processTabMove, and the burst it ended
    burst,             \* tab id -> the onMoved events since its debounce was last idle
    seqs,              \* the creation / bookmark-opening sequences in progress
    lastCreated,       \* the last onCreated event handled, and what handleTabCreated did
    reconcileRetryBySpace, \* space id -> the entry of its pending retry (NoRetry: no entry)
    retryTimers,       \* the retry timers set and neither fired nor cleared
    lastAnswer,        \* the last answer of the host to a batched move, and what the pass did
    lastFired,         \* the last retry timer that fired
    lastActivated,     \* the last call of setActiveSpace, and what it left
    lastDeleted,       \* the last call of deleteSpace, and what it left
    lastClosed,        \* the last tab closed, and what became of its row
    tabTitle,          \* host: title of each tab
    lastPinned,        \* the last pin / unpin of a tab, and what it left
    tree,              \* the folders under the bookmark root with their contents, as
                       \* mergeDuplicateSpaceFolders finds and leaves them
    lastMerge,         \* the runs of mergeDuplicateSpaceFolders so far, and what they did
    archivedTabs,      \* chrome.storage.local 'archivedTabs'
    archiveCalls,      \* context -> its archive call between storage read and write
    now,               \* Date.now()
    archiveEvents,     \* how many archive calls the session has started
    lastArchived,      \* the last list a call of addArchivedTab worked out
    lastSaved,         \* the last write of the archive that landed
    lastLoaded,        \* the last reload of the active space, and the live rows it made
    lastDrop,          \* the last drop on a section: the ids rendered and the array written
    favoritesFolder,   \* host: whether the root holds the folder of the favorites
    lastMenu,          \* the last list of spaces worked out, and by what
    settings,          \* chrome.storage.sync: autoArchiveEnabled, autoArchiveIdleMinutes
    tabLastActivity,   \* chrome.storage.local 'tabLastActivity': tab id -> timestamp
                       \* (0: no record)
    audible,           \* host: the tabs that are audible
    idleSince,         \* tab id -> a time no later than the last time the tab was
                       \* opened, active or audible
    lastCheck,         \* the last run of the auto-archive check, and what it closed
    lastTab,           \* space id -> the lastTab of the record of the space
    collapsed,         \* host: the tab-groups that are collapsed
    activeTab,         \* host: the active tab
    lastSwitch,        \* the last switch to a space with a live group, and what it left
    chromePinned,      \* host: the tabs pinned in the host's own tab strip
    pinnedFavicons     \* DOM: tab ids of the .pinned-favicon elements

pinVars == <<pins>>
moveVars == <<pendingTabMoves, debounceTimers, processingTabMoves, syncingToChrome,
              syncTimers, passes, echoes, movingToSpace, lastMove, lastRun, burst>>
flagVars == <<seqs, lastCreated>>
retryVars == <<reconcileRetryBySpace, retryTimers, lastAnswer, lastFired>>
spaceVars == <<lastActivated, lastDeleted, lastClosed>>
pinnedVars == <<tabTitle, lastPinned>>
mergeVars == <<tree, lastMerge>>
archiveVars == <<archivedTabs, archiveCalls, now, archiveEvents, lastArchived, lastSaved>>
loadVars == <<lastLoaded>>
dropVars == <<lastDrop>>
menuVars == <<favoritesFolder, lastMenu>>
autoVars == <<settings, tabLastActivity, audible, idleSince, lastCheck>>
moreVars == <<menuVars, autoVars>>
switchVars == <<lastTab, collapsed, activeTab, lastSwitch>>
hostPinVars == <<chromePinned, pinnedFavicons>>
laterVars == <<mergeVars, archiveVars, loadVars, hostPinVars, dropVars, moreVars>>
restVars == <<pinnedVars, laterVars>>
vars == <<spaces, storedSpaces, activeSpaceId, isCreatingSpace, isOpeningBookmark,
          groupTabs, ungrouped, tabUrl, nextTabId, nextGroupId, spaceElements, rows,
          bookmarkOnly, folders, nextBookmarkId, pinnedTabStates, lastOp, events,
          pins, pendingTabMoves, debounceTimers,
          processingTabMoves, syncingToChrome, syncTimers, passes, echoes, movingToSpace,
          lastMove, lastRun, burst, seqs, lastCreated, reconcileRetryBySpace, retryTimers,
          lastAnswer, lastFired, lastActivated, lastDeleted, lastClosed, tabTitle,
          lastPinned, tree, lastMerge, archivedTabs, archiveCalls, now, archiveEvents,
          lastArchived, lastSaved, lastLoaded, lastDrop, favoritesFolder, lastMenu,
          settings, tabLastActivity, audible, idleSince, lastCheck,
          lastTab, collapsed, activeTab, lastSwitch,
          chromePinned, pinnedFavicons>>

\* What a handler's last reconciliation pass was: its space, its source, and
\* whether the host order was left as the pass wanted it (no move needed, or
\* the batched move succeeded).
NoPass == [space |-> NoSpace, source |-> "none", settled |-> FALSE,
           queried |-> <<>>, sent |-> <<>>]

\* The mutable stores, gathered so that a handler is a function from stores to stores.
Stores == [spaces |-> spaces, storedSpaces |-> storedSpaces,
           groupTabs |-> groupTabs, ungrouped |-> ungrouped, tabUrl |-> tabUrl,
           rows |-> rows, bookmarkOnly |-> bookmarkOnly, folders |-> folders,
           nextBookmarkId |-> nextBookmarkId, pinnedTabStates |-> pinnedTabStates,
           moveCalls |-> 0, threw |-> FALSE, failed |-> FALSE, pass |-> NoPass,
           held |-> {}]

Commit(st) ==
    /\ spaces' = st.spaces
    /\ storedSpaces' = st.storedSpaces
    /\ groupTabs' = st.groupTabs
    /\ ungrouped' = st.ungrouped
    /\ tabUrl' = st.tabUrl
    /\ rows' = st.rows
    /\ bookmarkOnly' = st.bookmarkOnly
    /\ folders' = st.folders
    /\ nextBookmarkId' = st.nextBookmarkId
    /\ pinnedTabStates' = st.pinnedTabStates

\* ------------------------------------------------------------ host queries
InGroup(st, g) == IF g \in Groups THEN st.groupTabs[g] ELSE <<>>
GroupOf(st, t) == IF \E g \in Groups : Includes(st.groupTabs[g], t)
                  THEN CHOOSE g \in Groups : Includes(st.groupTabs[g], t)
                  ELSE NoSpace
IsOpen(st, t) == t \in st.ungrouped \/ GroupOf(st, t) # NoSpace
GroupExists(st, g) == g \in Groups /\ st.groupTabs[g] # <<>>

\* ----------------------------------------------------------- space queries
\* String.prototype.toLowerCase on a name: name 3 is name 1 with a letter in the
\* other case; the other names are in lower case and differ in their letters.
toLowerCase(name) == IF name = 3 THEN 1 ELSE name

\* spaces.find(pred): index of the first space for which the predicate holds.
FindSpace(sp, P(_)) ==
    IF \E i \in DOMAIN sp : P(sp[i])
    THEN CHOOSE i \in DOMAIN sp : P(sp[i]) /\ \A j \in 1..(i-1) : ~P(sp[j])
    ELSE 0
SpaceById(sp, id) == FindSpace(sp, LAMBDA s : s.id = id)
SpaceWithTab(sp, t) ==
    FindSpace(sp, LAMBDA s : Includes(s.temporaryTabs, t) \/ Includes(s.spaceBookmarks, t))

\* A space record, as far as membership goes.
Space(id, name, bookmarks, temps) ==
    [id |-> id, name |-> name, spaceBookmarks |-> bookmarks, temporaryTabs |-> temps]

\* saveSpaces(): chrome.storage.local.set({ spaces })
saveSpaces(st) == [st EXCEPT !.storedSpaces = st.spaces]

\* ------------------------------------------------- host tab-strip operations
\* chrome.tabs.group({tabIds: t, groupId: g}): t leaves where it was and becomes
\* the last tab of group g.  Rejects (caught by the caller) when t is closed or
\* g does not exist; a tab already in g stays where it is.
TabsGroup(st, t, g) ==
    IF ~IsOpen(st, t) \/ ~GroupExists(st, g) \/ Includes(st.groupTabs[g], t) THEN st
    ELSE [st EXCEPT !.ungrouped = @ \ {t},
                    !.groupTabs = [h \in Groups |->
                        IF h = g THEN Append(st.groupTabs[h], t)
                        ELSE Without(st.groupTabs[h], t)]]

\* chrome.tabs.move(ids, {index: groupStartIndex}): the listed tabs take the
\* first positions of the group in the listed order; the group's other tabs
\* follow in their previous relative order.
TabsMove(order, ids) ==
    ids \o SelectSeq(order, LAMBDA t : ~Includes(ids, t))

\* chrome.tabs.remove(t) / the user closing t in the tab strip.
TabsRemove(st, t) ==
    [st EXCEPT !.ungrouped = @ \ {t},
               !.groupTabs = [h \in Groups |-> Without(st.groupTabs[h], t)],
               !.tabUrl = [@ EXCEPT ![t] = NoUrl]]

\* ------------------------------------------------------- reconcileOrdering
\* The step without its correction of the bookmark block: only temporaryTabs is
\* recomputed.
HostSourceUpdateNoFix(s, chromeOrder, movedTabId) ==
    [s EXCEPT !.temporaryTabs = uniqPreserveOrder(
                 SelectSeq(chromeOrder, LAMBDA id : ~Includes(s.spaceBookmarks, id)))]

\* The step leaving temporaryTabs as the model had it.
HostSourceUpdateKeepsTemps(s, chromeOrder, movedTabId) == s

\* Step 2 of the pass, only for source = 'chrome': temporaryTabs is recomputed
\* from the host order, and a bookmarked moved tab found after the first
\* temporary tab becomes the last bookmark.
HostSourceUpdate(s, chromeOrder, movedTabId) ==
    LET isBookmark(id) == Includes(s.spaceBookmarks, id)
        chromeTemps == SelectSeq(chromeOrder, LAMBDA id : ~isBookmark(id))
        s1 == [s EXCEPT !.temporaryTabs = uniqPreserveOrder(chromeTemps)]
        movedIndex == IndexOf(chromeOrder, movedTabId)
        firstTempIndex == IF chromeTemps = <<>> THEN 0 ELSE IndexOf(chromeOrder, chromeTemps[1])
    IN IF movedTabId # NoTab /\ isBookmark(movedTabId)
          /\ firstTempIndex # 0 /\ movedIndex # 0 /\ movedIndex > firstTempIndex
       THEN [s1 EXCEPT !.spaceBookmarks = Append(Without(s.spaceBookmarks, movedTabId), movedTabId)]
       ELSE s1

\* Steps 3-4 without the filter on the ids of the group.
DesiredGroupOrderUnfiltered(s, chromeOrder) ==
    uniqPreserveOrder(s.spaceBookmarks \o s.temporaryTabs)

\* Steps 3-4: the desired host order of the group, from the model.
DesiredGroupOrder(s, chromeOrder) ==
    LET inGroup(id) == Includes(chromeOrder, id)
        desiredBookmarks == uniqPreserveOrder(SelectSeq(s.spaceBookmarks, inGroup))
        desiredTemps == uniqPreserveOrder(
            SelectSeq(s.temporaryTabs, LAMBDA id : inGroup(id) /\ ~Includes(desiredBookmarks, id)))
    IN uniqPreserveOrder(desiredBookmarks \o desiredTemps)

\* One pass of reconcileSpaceTabOrdering over the space array sp and the host
\* order of the group.  outcome is the host's answer to the batched move, should
\* one be issued: "ok", "busy" ('Tabs cannot be edited right now') or "error".
\* The result records what the pass did.
reconcileSpaceTabOrdering(sp, chromeOrder, spaceId, source, movedTabId, outcome) ==
    LET i == SpaceById(sp, spaceId)
        skipped == [spaces |-> sp, order |-> chromeOrder, ran |-> FALSE, issued |-> FALSE,
                    moved |-> FALSE, desired |-> <<>>, retry |-> FALSE, threw |-> FALSE,
                    saved |-> FALSE]
    IN IF spaceId = NoSpace \/ i = 0 \/ chromeOrder = <<>> THEN skipped
       ELSE With(IF source = "chrome" THEN HostSourceUpdate(sp[i], chromeOrder, movedTabId)
                 ELSE sp[i], LAMBDA s1 :
            With(DesiredGroupOrder(s1, chromeOrder), LAMBDA desired :
            LET isSameOrder == desired = chromeOrder
                ok == outcome = "ok"
            IN [spaces |-> [sp EXCEPT ![i] = s1],
                order |-> IF ~isSameOrder /\ ok THEN TabsMove(chromeOrder, desired) ELSE chromeOrder,
                ran |-> TRUE,
                issued |-> ~isSameOrder,
                moved |-> ~isSameOrder /\ ok,
                desired |-> desired,
                retry |-> ~isSameOrder /\ outcome = "busy",
                threw |-> ~isSameOrder /\ outcome = "error",
                saved |-> isSameOrder \/ outcome # "error"]))

\* The pass applied to the stores: the array, the host order and the saved copy.
Reconcile(stores, spaceId, source, movedTabId, outcome) ==
    With(stores, LAMBDA st :
    With(reconcileSpaceTabOrdering(st.spaces, InGroup(st, spaceId), spaceId,
                                   source, movedTabId, outcome), LAMBDA r :
    With([st EXCEPT !.spaces = r.spaces,
                    !.groupTabs = IF spaceId \in Groups
                                  THEN [@ EXCEPT ![spaceId] = r.order] ELSE @,
                    !.moveCalls = @ + (IF r.issued THEN 1 ELSE 0),
                    !.threw = r.threw,
                    !.failed = @ \/ (r.issued /\ ~r.moved),
                    !.pass = IF r.ran
                             THEN [space |-> spaceId, source |-> source,
                                   settled |-> ~r.issued \/ r.moved,
                                   queried |-> InGroup(st, spaceId),
                                   sent |-> IF r.issued THEN r.desired ELSE <<>>]
                             ELSE @], LAMBDA st1 :
    IF r.saved THEN saveSpaces(st1) ELSE st1)))

\* ------------------------------------------------------------ bookmark tree
\* The first root-level folder with the given title (spaceFolders.find(f => f.title === name)).
HasFolder(st, name) == name \in Names /\ st.folders[name] # <<>>
FolderBookmarks(st, name) == IF HasFolder(st, name) THEN st.folders[name][1] ELSE <<>>
FolderUrls(st, name) ==
    [k \in DOMAIN FolderBookmarks(st, name) |-> FolderBookmarks(st, name)[k].url]

\* BookmarkUtils.findBookmarkByUrl(bookmarks, url): the id of the first bookmark
\* of the list with that URL.
findBookmarkByUrl(bookmarks, url) ==
    IF \E k \in DOMAIN bookmarks : bookmarks[k].url = url
    THEN bookmarks[CHOOSE k \in DOMAIN bookmarks :
                      /\ bookmarks[k].url = url
                      /\ \A j \in 1..(k-1) : bookmarks[j].url # url].id
    ELSE NoBookmark

\* ------------------------------------------------------ Pinned Tab State
\* Utils.getPinnedTabState(tabId): the entry of the tab, NoState without one.
PinnedState(url, id) == [stored |-> TRUE, pinnedUrl |-> url, bookmarkId |-> id]
getPinnedTabState(st, tabId) == st.pinnedTabStates[tabId]

\* Utils.setPinnedTabState(tabId, {pinnedUrl, bookmarkId}).
setPinnedTabState(st, tabId, url, id) ==
    [st EXCEPT !.pinnedTabStates[tabId] = PinnedState(url, id)]

\* Utils.removePinnedTabState(tabId).
removePinnedTabState(st, tabId) ==
    IF tabId \in Tabs THEN [st EXCEPT !.pinnedTabStates[tabId] = NoState] ELSE st

\* createTabElement(tab, isPinned) of an open tab, as far as the Pinned Tab
\* State goes: a pinned row stores the pinned URL and the bookmark id the
\* caller put on the tab object, else the stored ones, else the tab's URL and
\* no bookmark id.
createTabElement(st, tabId, isPinned, pinnedUrl, bookmarkId) ==
    LET stored == getPinnedTabState(st, tabId)
    IN IF ~isPinned THEN st
       ELSE setPinnedTabState(st, tabId,
               IF pinnedUrl # NoUrl THEN pinnedUrl
               ELSE IF stored.pinnedUrl # NoUrl THEN stored.pinnedUrl ELSE st.tabUrl[tabId],
               IF bookmarkId # NoBookmark THEN bookmarkId ELSE stored.bookmarkId)

\* ---------------------------------------------------------------- DOM rows
SectionRank(section) == IF section = "pinned" THEN 1 ELSE 2
RowsOf(st, t) == {r \in st.rows : r.tabId = t}
\* document.querySelector('[data-tab-id="t"]'): the first such row in document
\* order, the pinned section before the temporary one.
FirstRow(st, t) ==
    CHOOSE r \in RowsOf(st, t) :
        \A q \in RowsOf(st, t) : SectionRank(r.section) <= SectionRank(q.section)
RemoveFirstRow(st, t) ==
    IF RowsOf(st, t) = {} THEN st ELSE [st EXCEPT !.rows = @ \ {FirstRow(st, t)}]
Row(section, t) == [section |-> section, tabId |-> t]

\* -------------------------------------------------------------- moveTabToSpace
RemoveFromSpace(s, t) ==
    [s EXCEPT !.temporaryTabs = Without(@, t), !.spaceBookmarks = Without(@, t)]

\* What moveTabToSpace does before its first await: the tab leaves the first
\* space found holding it, when that is not the target.
LeaveSourceSpace(sp, tabId, spaceId) ==
    LET src == SpaceWithTab(sp, tabId)
    IN IF src # 0 /\ sp[src].id # spaceId
       THEN [sp EXCEPT ![src] = RemoveFromSpace(sp[src], tabId)] ELSE sp

\* Steps of moveTabToSpace on the space array alone: the tab leaves its source
\* space, then leaves both arrays of the target and is pushed onto the array
\* the pinned flag selects.  Without a target space only the first step happens.
MoveTabInSpaces(sp, tabId, spaceId, pinned) ==
    LET sp1 == LeaveSourceSpace(sp, tabId, spaceId)
        i == SpaceById(sp1, spaceId)
        cleared == RemoveFromSpace(sp1[i], tabId)
    IN IF i = 0 THEN sp1
       ELSE [sp1 EXCEPT ![i] =
                IF pinned THEN [cleared EXCEPT !.spaceBookmarks = Append(@, tabId)]
                ELSE [cleared EXCEPT !.temporaryTabs = Append(@, tabId)]]

\* moveTabToSpace(tabId, spaceId, pinned) as a whole.  With no target space it
\* returns after touching the source space, before saving.  chrome.tabs.get of
\* a closed tab rejects after the arrays were updated and the old row removed,
\* so that nothing is saved.  On both paths the last line, which deletes the
\* tab from processingTabMoves, is not reached: held lists the tabs so left.
moveTabToSpace(st, tabId, spaceId, pinned, space_elements) ==
    With([st EXCEPT !.spaces = MoveTabInSpaces(@, tabId, spaceId, pinned)], LAMBDA st1 :
    IF SpaceById(st.spaces, spaceId) = 0 THEN [st1 EXCEPT !.held = @ \cup {tabId}]
    ELSE With(RemoveFirstRow(TabsGroup(st1, tabId, spaceId), tabId), LAMBDA st2 :
         IF spaceId \notin space_elements THEN saveSpaces(st2)
         ELSE IF ~IsOpen(st2, tabId) THEN [st2 EXCEPT !.threw = TRUE, !.failed = TRUE,
                                                      !.held = @ \cup {tabId}]
         ELSE saveSpaces([createTabElement(st2, tabId, pinned, NoUrl, NoBookmark)
                             EXCEPT !.rows =
                             @ \cup {Row(IF pinned THEN "pinned" ELSE "temporary", tabId)}])))

\* ---------------------------------------------------------- handleTabRemove
\* handleTabRemove(tabId), run once the host has removed the tab; url is the URL
\* the row of the tab carried (chrome.tabs.get rejects by then).  It returns
\* before touching the arrays when no row with that tab id is rendered, and
\* throws on activeSpace.spaceBookmarks when no space has the active id.  The
\* Pinned Tab State of the tab is removed first.
handleTabRemove(st0, tabId, url, active) ==
    LET a == SpaceById(st0.spaces, active)
    IN With(removePinnedTabState(st0, tabId), LAMBDA st :
       IF RowsOf(st, tabId) = {} THEN st
       ELSE IF a = 0 THEN [st EXCEPT !.threw = TRUE, !.failed = TRUE]
       ELSE LET activeSpace == st.spaces[a]
                isPinned == Includes(activeSpace.spaceBookmarks, tabId)
                matching == Includes(FolderUrls(st, activeSpace.name), url)
            IN saveSpaces([st EXCEPT
                 !.rows = @ \ {FirstRow(st, tabId)},
                 !.bookmarkOnly = IF isPinned /\ matching THEN @ \cup {url} ELSE @,
                 !.spaces = [i \in DOMAIN @ |-> RemoveFromSpace(@[i], tabId)]]))

\* closeTab(tabElement, tab, isPinned) for a live row, up to its call of
\* chrome.tabs.remove: the row of a tab held as a bookmark of the active space
\* is replaced by a bookmark-only placeholder before the tab is removed.  With
\* no folder for the active space the tab is left open.
closeTab(st, row, active) ==
    LET a == SpaceById(st.spaces, active)
        t == row.tabId
        isCurrentlyPinned == a # 0 /\ Includes(st.spaces[a].spaceBookmarks, t)
        isCurrentlyTemporary == a # 0 /\ Includes(st.spaces[a].temporaryTabs, t)
        isPinned == row.section = "pinned"
    IN IF isCurrentlyPinned \/ (isPinned /\ ~isCurrentlyTemporary)
       THEN IF a = 0 THEN [st EXCEPT !.threw = TRUE, !.failed = TRUE]
            ELSE IF HasFolder(st, st.spaces[a].name)
            THEN TabsRemove([st EXCEPT !.rows = @ \ {row},
                                       !.bookmarkOnly = @ \cup {st.tabUrl[t]}], t)
            ELSE st
       ELSE TabsRemove(st, t)

\* BookmarkUtils.findTabByUrl(allTabs, url): the first open tab showing the URL.
findTabByUrl(st, url) ==
    IF \E t \in Tabs : IsOpen(st, t) /\ st.tabUrl[t] = url
    THEN CHOOSE t \in Tabs : /\ IsOpen(st, t) /\ st.tabUrl[t] = url
                             /\ \A q \in 1..(t-1) : ~(IsOpen(st, q) /\ st.tabUrl[q] = url)
    ELSE NoTab

\* The click handler of a bookmark-only pinned row when a tab with the row's
\* URL is already open: the tab is pushed onto the bookmarks of the space of
\* its group unless already there, and the row is replaced by a live pinned row.
\* The Pinned Tab State of the tab gets the URL and the bookmark id of the row.
openExistingTab(st, url, existingTab, bookmarkId) ==
    LET st1 == setPinnedTabState(st, existingTab, url, bookmarkId)
        i == SpaceById(st1.spaces, GroupOf(st1, existingTab))
        st2 == IF i = 0 THEN st1
               ELSE saveSpaces([st1 EXCEPT !.spaces[i].spaceBookmarks =
                        IF Includes(@, existingTab) THEN @ ELSE Append(@, existingTab)])
    IN [createTabElement(st2, existingTab, TRUE, NoUrl, NoBookmark)
           EXCEPT !.bookmarkOnly = @ \ {url},
                  !.rows = @ \cup {Row("pinned", existingTab)}]

\* dataset.bookmarkId of the bookmark-only row of a URL: the id of the bookmark
\* of the active space's folder the row was rendered from.
RowBookmarkId(st, active, url) ==
    LET a == SpaceById(st.spaces, active)
    IN IF a = 0 THEN NoBookmark
       ELSE findBookmarkByUrl(FolderBookmarks(st, st.spaces[a].name), url)

\* ------------------------------------------------------------ pin and unpin
\* LocalStorage.getOrCreateSpaceFolder(name): the folder of that title, created
\* empty when there is none.
getOrCreateSpaceFolder(st, name) ==
    IF HasFolder(st, name) THEN st ELSE [st EXCEPT !.folders[name] = << <<>> >>]

\* BookmarkUtils.removeBookmarkByUrl(folderId, url), on the first folder of the title.
removeBookmarkByUrl(st, name, url) ==
    IF HasFolder(st, name)
    THEN [st EXCEPT !.folders[name][1] = SelectSeq(@, LAMBDA b : b.url # url)] ELSE st

\* chrome.bookmarks.create({parentId, title, url}) in the first folder of the title.
CreateBookmark(st, name, url, title) ==
    [st EXCEPT !.folders[name][1] = Append(@, Bookmark(st.nextBookmarkId, url, title)),
               !.nextBookmarkId = @ + 1]

\* moveTabToPinned(space, tab) up to its pass.  The space object is the
\* caller's: an element of the in-memory array (live = TRUE) or of a copy read
\* back from storage, whose mutation the array never sees.  The bookmark is
\* created only when no child of the folder has the URL, and the Pinned Tab
\* State gets the tab's URL and the id of the bookmark found or created.
PinBookmark(st, live, spaceId, name, t) ==
    LET i == SpaceById(st.spaces, spaceId)
        url == st.tabUrl[t]
        existingBookmark(s) == findBookmarkByUrl(FolderBookmarks(s, name), url)
    IN With(IF live /\ i # 0
            THEN [st EXCEPT !.spaces[i].temporaryTabs = Without(@, t),
                            !.spaces[i].spaceBookmarks =
                                 IF Includes(@, t) THEN @ ELSE Append(@, t)]
            ELSE st, LAMBDA st1 :
       With(getOrCreateSpaceFolder(st1, name), LAMBDA st2 :
       IF existingBookmark(st2) # NoBookmark
       THEN setPinnedTabState(st2, t, url, existingBookmark(st2))
       ELSE setPinnedTabState(
                CreateBookmark(removeBookmarkByUrl(st2, name, url), name, url, tabTitle[t]),
                t, url, st2.nextBookmarkId)))

\* moveTabToPinned(space, tab): the pass runs last, source 'arcify'.
moveTabToPinned(st, live, spaceId, name, t, outcome) ==
    With(PinBookmark(st, live, spaceId, name, t), LAMBDA st1 :
    Reconcile(st1, spaceId, "arcify", t, outcome))

\* moveTabToTemp(space, tab) up to its pass: the bookmark with the tab's current
\* URL is removed, the tab goes from the bookmarks to the temporary tabs, its
\* Pinned Tab State is removed and the array is saved.
UnpinBookmark(st, live, spaceId, name, t) ==
    LET i == SpaceById(st.spaces, spaceId)
    IN With(removeBookmarkByUrl(st, name, st.tabUrl[t]), LAMBDA st1 :
       saveSpaces(removePinnedTabState(
                  IF live /\ i # 0
                  THEN [st1 EXCEPT !.spaces[i].spaceBookmarks = Without(@, t),
                                   !.spaces[i].temporaryTabs =
                                       IF Includes(@, t) THEN @ ELSE Append(@, t)]
                  ELSE st1, t)))

\* moveTabToTemp(space, tab): the pass runs last, source 'arcify'.
moveTabToTemp(st, live, spaceId, name, t, outcome) ==
    With(UnpinBookmark(st, live, spaceId, name, t), LAMBDA st1 :
    Reconcile(st1, spaceId, "arcify", t, outcome))

\* The quickPinToggle / toggleSpacePin listener.  It looks the tab up in the
\* copy of the array read from storage: a temporary tab is pinned, a bookmarked
\* one unpinned, through moveTabToSpace on the array and moveTabToPinned /
\* moveTabToTemp on the copy.  Neither call is awaited: the pass at the end of
\* the second runs after moveTabToSpace has updated the array, or (passFirst)
\* while moveTabToSpace is still waiting for chrome.tabs.group.
togglePin(st, t, space_elements, outcome, passFirst) ==
    LET copy == st.storedSpaces
        asTemp == FindSpace(copy, LAMBDA s : Includes(s.temporaryTabs, t))
        asBookmark == FindSpace(copy, LAMBDA s : Includes(s.spaceBookmarks, t))
        i == IF asTemp # 0 THEN asTemp ELSE asBookmark
        toSpace(s) == moveTabToSpace(s, t, copy[i].id, asTemp # 0, space_elements)
        onCopy(s) == IF asTemp # 0
                     THEN moveTabToPinned(s, FALSE, copy[i].id, copy[i].name, t, outcome)
                     ELSE moveTabToTemp(s, FALSE, copy[i].id, copy[i].name, t, outcome)
    IN IF i = 0 THEN st
       ELSE IF passFirst
       THEN With([st EXCEPT !.spaces = LeaveSourceSpace(@, t, copy[i].id)], LAMBDA st1 :
            With(onCopy(st1), LAMBDA st2 : [toSpace(st2) EXCEPT !.pass = NoPass]))
       ELSE With(toSpace(st), LAMBDA st1 : onCopy(st1))

\* ------------------------------------------------------------ processTabMove
\* The cross-space branch on the array: the tab leaves both arrays of the source
\* space and the bookmarks of the destination, and is pushed onto the
\* destination's temporary tabs unless already there.
MoveBetweenSpaces(sp, src, dst, tabId) ==
    LET sp1 == [sp EXCEPT ![src] = RemoveFromSpace(sp[src], tabId)]
    IN [sp1 EXCEPT ![dst].spaceBookmarks = Without(@, tabId),
                   ![dst].temporaryTabs = IF Includes(@, tabId) THEN @ ELSE Append(@, tabId)]

\* The condition of the cross-space branch of processTabMove: the tab is held
\* by a space and now sits in the group of another one.
MovedBetweenSpaces(st, tabId) ==
    LET src == SpaceWithTab(st.spaces, tabId)
        dst == SpaceById(st.spaces, GroupOf(st, tabId))
    IN src # 0 /\ dst # 0 /\ st.spaces[src].id # st.spaces[dst].id

\* A tab the space holds as temporary and not as a bookmark.
IsTemporary(s, id) == Includes(s.temporaryTabs, id) /\ ~Includes(s.spaceBookmarks, id)

\* A same-space reorder has left tab t, a bookmark of the space of its group,
\* after a temporary tab of that space in the host order of the group.
BookmarkAfterTemp(st, t) ==
    LET i == SpaceById(st.spaces, GroupOf(st, t))
        order == InGroup(st, GroupOf(st, t))
    IN /\ i # 0
       /\ ~MovedBetweenSpaces(st, t)
       /\ Includes(st.spaces[i].spaceBookmarks, t)
       /\ \E k \in 1..(IndexOf(order, t) - 1) : IsTemporary(st.spaces[i], order[k])

\* effectiveSpaceId of a same-space reorder: destSpace?.id ?? sourceSpace?.id.
effectiveSpaceId(st, tabId) ==
    LET src == SpaceWithTab(st.spaces, tabId)
        dst == SpaceById(st.spaces, GroupOf(st, tabId))
    IN IF dst # 0 THEN st.spaces[dst].id
       ELSE IF src # 0 THEN st.spaces[src].id ELSE NoSpace

\* The body of processTabMove(tabId) for an open tab, once the host move is
\* done: membership first when the tab changed groups, then the pass with
\* source 'chrome' for the source and the destination space, or for the one
\* space of a same-space reorder.
processTabMove(st, tabId, space_elements, outcome1, outcome2) ==
    LET src == SpaceWithTab(st.spaces, tabId)
        dst == SpaceById(st.spaces, GroupOf(st, tabId))
    IN IF src = 0 /\ dst = 0 THEN st
       ELSE IF MovedBetweenSpaces(st, tabId)
       THEN LET sourceId == st.spaces[src].id
                destId == st.spaces[dst].id
            IN With([st EXCEPT !.spaces = MoveBetweenSpaces(@, src, dst, tabId)], LAMBDA st1 :
               With(IF RowsOf(st1, tabId) # {} /\ destId \in space_elements
                    THEN [st1 EXCEPT !.rows = (@ \ {FirstRow(st1, tabId)})
                                              \cup {Row("temporary", tabId)}]
                    ELSE st1, LAMBDA st2 :
               With(Reconcile(st2, sourceId, "chrome", tabId, outcome1), LAMBDA st3 :
               IF st3.threw THEN st3 ELSE Reconcile(st3, destId, "chrome", tabId, outcome2))))
       ELSE Reconcile(st, effectiveSpaceId(st, tabId), "chrome", tabId, outcome1)

\* ------------------------------------------------------------ space creation
\* BookmarkUtils.matchTabsWithBookmarks(folder, groupId): for each bookmark of
\* the folder, in order, the first tab of the group showing its URL.
matchTabsWithBookmarks(st, name, groupId) ==
    LET urls == FolderUrls(st, name)
        order == InGroup(st, groupId)
        hit(u) == SelectSeq(order, LAMBDA t : st.tabUrl[t] = u)
        matched == [k \in DOMAIN urls |-> IF hit(urls[k]) = <<>> THEN NoTab ELSE hit(urls[k])[1]]
    IN SelectSeq(matched, LAMBDA t : t # NoTab)

\* Utils.getPinnedUrlKey(url): origin and path of the URL.  URLs u and u + 2
\* differ in their query string only.
getPinnedUrlKey(url) == IF url = NoUrl THEN 0 ELSE ((url - 1) % 2) + 1

\* tabs.find(pred): the first open tab, in the order of chrome.tabs.query, that
\* satisfies pred.
FirstTab(S) == IF S = {} THEN NoTab ELSE CHOOSE t \in S : \A q \in S : t <= q

\* The open tab loadTabs chooses to represent bookmark item: the tab whose
\* Pinned Tab State (as read at the start of loadTabs) holds the bookmark's id,
\* else the first tab showing the bookmark's URL, else the first tab not yet
\* representing a bookmark whose URL has the origin and path of the bookmark's.
existingTabOf(st, states, item, represented) ==
    LET open == {t \in Tabs : IsOpen(st, t)}
        byBookmarkId == FirstTab({t \in open : states[t].bookmarkId = item.id})
        byExactUrl == findTabByUrl(st, item.url)
        byBaseUrl == FirstTab({t \in open :
                        /\ t \notin represented
                        /\ getPinnedUrlKey(st.tabUrl[t]) = getPinnedUrlKey(item.url)})
    IN IF byBookmarkId # NoTab THEN byBookmarkId
       ELSE IF byExactUrl # NoTab THEN byExactUrl ELSE byBaseUrl

\* processBookmarkNode(node, container) of loadTabs, from the k-th child on: a
\* bookmark whose URL no earlier child had becomes a live pinned row of the
\* tab chosen for it, whose Pinned Tab State gets the bookmark's URL and id,
\* or a bookmark-only row.  shown lists the live rows, bookmark by bookmark.
RECURSIVE processBookmarkNode(_, _, _, _)
processBookmarkNode(acc, states, items, k) ==
    IF k > Len(items) THEN acc
    ELSE LET item == items[k]
             processedUrls == {items[j].url : j \in 1..(k-1)}
             existingTab == existingTabOf(acc.st, states, item, acc.represented)
         IN IF item.url \in processedUrls THEN processBookmarkNode(acc, states, items, k + 1)
            ELSE IF existingTab # NoTab
            THEN processBookmarkNode(
                    [st |-> [createTabElement(acc.st, existingTab, TRUE, item.url, item.id)
                                EXCEPT !.rows = @ \cup {Row("pinned", existingTab)}],
                     represented |-> acc.represented \cup {existingTab},
                     shown |-> Append(acc.shown, [bookmark |-> item.id, tab |-> existingTab])],
                    states, items, k + 1)
            ELSE processBookmarkNode([acc EXCEPT !.st.bookmarkOnly = @ \cup {item.url}],
                                     states, items, k + 1)

\* What loadTabs renders from the folder of the space.
LoadPinned(st, name) ==
    processBookmarkNode([st |-> st, represented |-> {}, shown |-> <<>>],
                        st.pinnedTabStates, FolderBookmarks(st, name), 1)

\* createSpaceElement(space) with its loadTabs: every bookmark of the space's
\* folder becomes a live pinned row of the open tab that represents it, or a
\* bookmark-only row; every temporary tab not so represented gets a row.
loadTabs(st, name, temps) ==
    LET r == LoadPinned(st, name)
    IN [r.st EXCEPT
          !.rows = @ \cup {Row("temporary", t) :
                              t \in {q \in SeqSet(temps) : IsOpen(st, q)} \ r.represented}]

\* ChromeHelper.createNewTabGroup(tab, name, color): a new group holding the tab.
createNewTabGroup(st, t, g) ==
    [st EXCEPT !.ungrouped = @ \ {t},
               !.groupTabs = [h \in Groups |-> IF h = g THEN <<t>> ELSE Without(@[h], t)]]

\* createSpaceFromInactive(spaceName, tabToMove) when the folder exists: the tab
\* becomes the only tab of a new group; the new space takes its bookmarks from
\* the match of the folder against the group and the tab as its one temporary
\* tab; the tab leaves the first space found holding it.
createSpaceFromInactive(st, name, t, g) ==
    With(createNewTabGroup(st, t, g), LAMBDA st1 :
    LET space == Space(g, name, matchTabsWithBookmarks(st1, name, g), <<t>>)
        old == SpaceWithTab(st1.spaces, t)
        sp1 == IF old = 0 THEN st1.spaces
               ELSE [st1.spaces EXCEPT ![old] = RemoveFromSpace(@, t)]
    IN With(saveSpaces([RemoveFirstRow(st1, t) EXCEPT !.spaces = Append(sp1, space)]),
            LAMBDA st2 : loadTabs(st2, name, <<t>>)))

\* ----------------------------------------------------------------- actions
\* Every action handles one event of the session, start to end.
HandledHost ==
    events < MaxEvents /\ events' = events + 1 /\ UNCHANGED <<pinVars, moveVars, flagVars, retryVars, restVars>>
HandledSpace == HandledHost /\ UNCHANGED switchVars
Handled == HandledSpace /\ UNCHANGED spaceVars

\* A pin / unpin command that is not running.
Idle == [phase |-> "idle", kind |-> "none", tab |-> NoTab, space |-> NoSpace,
         name |-> 0, url |-> NoUrl, bookmarkId |-> NoBookmark, read |-> <<>>]

\* lastOp: the handler that ran, the tab it was about and its last pass.
\* crossed tells that a move in the native tab strip left the moved tab, a
\* bookmark of its space, after a temporary tab of that space.
Op(name, t, st, crossed) ==
    [op |-> name, tab |-> t, failed |-> st.failed, pass |-> st.pass, crossed |-> crossed]
Other == [op |-> "other", tab |-> NoTab, failed |-> FALSE, pass |-> NoPass, crossed |-> FALSE]

\* What is remembered of the onMoved events and of the runs of processTabMove.
NoMove == [tab |-> NoTab, info |-> NoInfo, syncing |-> FALSE, processing |-> FALSE,
           scheduled |-> FALSE]
NoBurst == [arrived |-> NoInfo, accepted |-> NoInfo, count |-> 0, runs |-> 0]
NoRun == [tab |-> NoTab, info |-> NoInfo, arrived |-> NoInfo, accepted |-> NoInfo,
          count |-> 0, runs |-> 0]

\* A creation / bookmark-opening sequence that is not running, and no onCreated
\* event handled yet.
NoSeq == [kind |-> "none", phase |-> "idle", name |-> 0, url |-> NoUrl, tab |-> NoTab]
NoCreated == [tab |-> NoTab, synthesized |-> FALSE, flagged |-> FALSE, moved |-> FALSE]

\* No entry in reconcileRetryBySpace; no answer of the host and no retry timer
\* fired yet.
NoRetry == [attempt |-> 0, source |-> "none", movedTabId |-> NoTab]
NoAnswer == [space |-> NoSpace, outcome |-> "none", attempt |-> 0, scheduled |-> FALSE,
             threw |-> FALSE, saved |-> FALSE, persisted |-> FALSE,
             replaced |-> FALSE, pending |-> 0]
NoFired == [space |-> NoSpace, attempt |-> 0, stale |-> FALSE]

\* initSidebar with no tab group in the window: the two open tabs are grouped into
\* the default group, which becomes the only space, with every tab temporary; the
\* default folder exists, with one bookmark left from an earlier session that no
\* open tab shows and that is rendered as a bookmark-only row.  A second folder,
\* of a space that is not open, is left from an earlier session too.
\* No call of setActiveSpace yet, and no call of deleteSpace yet.
NoActivation == [old |-> NoSpace, new |-> NoSpace, recreated |-> FALSE, kept |-> FALSE,
                 ids |-> {}, active |-> NoSpace]
NoDeletion == [space |-> NoSpace, asked |-> {}, open |-> {}, folderRemoved |-> FALSE,
               inMemory |-> FALSE, persisted |-> FALSE, threw |-> FALSE]

\* No tab pinned or unpinned yet.
NoPinning == [kind |-> "none", via |-> "none", tab |-> NoTab, space |-> NoSpace,
              url |-> NoUrl, title |-> 0, pinnedUrl |-> NoUrl, first |-> FALSE,
              fresh |-> FALSE, bookmarks |-> <<>>, temporary |-> FALSE,
              bookmark |-> Bookmark(NoBookmark, NoUrl, 0), state |-> NoState,
              kept |-> FALSE]

\* What pinning (kind "pin") or unpinning (kind "unpin") tab t in a space
\* left.  From before: the tab's URL and title, the pinned URL its Pinned Tab
\* State held, whether the space held no bookmark (first) and whether its
\* folder had no bookmark with the tab's URL (fresh).  From after: the
\* bookmarks of the space, whether the tab is one of its temporary tabs, the
\* bookmark with the tab's URL in the folder, the Pinned Tab State of the tab,
\* and whether a bookmark with the pinned URL is still in the folder (kept).
Pinning(before, after, kind, via, t, spaceId) ==
    LET i == SpaceById(before.spaces, spaceId)
        j == SpaceById(after.spaces, spaceId)
        name == IF i = 0 THEN NoName ELSE before.spaces[i].name
        url == before.tabUrl[t]
        pinnedUrl == before.pinnedTabStates[t].pinnedUrl
        found == SelectSeq(FolderBookmarks(after, name), LAMBDA b : b.url = url)
    IN [kind |-> kind, via |-> via, tab |-> t, space |-> spaceId,
        url |-> url, title |-> tabTitle[t], pinnedUrl |-> pinnedUrl,
        first |-> i # 0 /\ before.spaces[i].spaceBookmarks = <<>>,
        fresh |-> findBookmarkByUrl(FolderBookmarks(before, name), url) = NoBookmark,
        bookmarks |-> IF j = 0 THEN <<>> ELSE after.spaces[j].spaceBookmarks,
        temporary |-> j # 0 /\ Includes(after.spaces[j].temporaryTabs, t),
        bookmark |-> IF found = <<>> THEN Bookmark(NoBookmark, NoUrl, 0) ELSE found[1],
        state |-> after.pinnedTabStates[t],
        kept |-> Includes(FolderUrls(after, name), pinnedUrl)]

\* No tab closed yet.
NoClosing == [tab |-> NoTab, via |-> "none", space |-> NoSpace, active |-> NoSpace,
              bookmarked |-> FALSE,
              closed |-> FALSE, fresh |-> FALSE, placeholder |-> FALSE, kept |-> FALSE]

\* What the closing of tab t left: whether t was a live bookmark of a space
\* (in its spaceBookmarks, shown by a pinned row, its URL a bookmark of the
\* folder of the space), whether it is closed, whether a bookmark-only row
\* carries its URL, and whether the bookmark is still in the folder; active is
\* the active space id at the time.
Closing(before, after, active, t, via) ==
    LET i == FindSpace(before.spaces, LAMBDA s : Includes(s.spaceBookmarks, t))
        name == IF i = 0 THEN NoName ELSE before.spaces[i].name
    IN [tab |-> t, via |-> via,
        space |-> IF i = 0 THEN NoSpace ELSE before.spaces[i].id,
        active |-> active,
        bookmarked |-> /\ i # 0
                       /\ Row("pinned", t) \in before.rows
                       /\ Includes(FolderUrls(before, name), before.tabUrl[t]),
        closed |-> ~IsOpen(after, t),
        fresh |-> before.tabUrl[t] \notin before.bookmarkOnly,
        placeholder |-> before.tabUrl[t] \in after.bookmarkOnly,
        kept |-> Includes(FolderUrls(after, name), before.tabUrl[t])]

\* ------------------------------------------- duplicate folders at startup
\* A node of the bookmark tree: a bookmark (with a URL) or a folder (url =
\* NoUrl) with its children in order.  Folders under the root carry the time
\* they were created.
TreeNode(id, title, url, children) ==
    [id |-> id, title |-> title, url |-> url, children |-> children]
RootFolder(id, title, dateAdded, children) ==
    [id |-> id, title |-> title, url |-> NoUrl, dateAdded |-> dateAdded, children |-> children]

HasNode(nodes, id) == \E k \in DOMAIN nodes : nodes[k].id = id
NodeById(nodes, id) == nodes[CHOOSE k \in DOMAIN nodes : nodes[k].id = id]
RemoveNode(nodes, id) == SelectSeq(nodes, LAMBDA n : n.id # id)
ReplaceNode(nodes, node) ==
    [k \in DOMAIN nodes |-> IF nodes[k].id = node.id THEN node ELSE nodes[k]]

\* The host refuses one call of a run, the fails-th (none when fails = 0): the
\* call changes nothing and its promise is rejected.  acc.done counts the calls
\* the run issued before this merge and acc.calls the calls of this merge.
Refused(acc) == acc.fails = acc.done + acc.calls + 1
Rejected(acc) == [acc EXCEPT !.calls = @ + 1, !.threw = TRUE, !.failed = TRUE]

\* chrome.bookmarks.move(item.id, {parentId: target}) that leaves the item in
\* the source as well.
BookmarksMoveCopies(acc, item) ==
    IF Refused(acc) THEN Rejected(acc)
    ELSE [acc EXCEPT !.target.children = Append(@, item), !.calls = @ + 1]

\* chrome.bookmarks.move(item.id, {parentId: target}): the item becomes the last
\* child of the target.
BookmarksMove(acc, item) ==
    IF Refused(acc) THEN Rejected(acc)
    ELSE [acc EXCEPT !.source.children = RemoveNode(@, item.id),
                     !.target.children = Append(@, item),
                     !.calls = @ + 1]

\* chrome.bookmarks.remove(item.id) of a host that removes a folder with all
\* it holds.
BookmarksRemoveWithChildren(acc, item) ==
    IF acc.fails = acc.done + acc.calls + 1
    THEN [acc EXCEPT !.calls = @ + 1, !.threw = TRUE, !.failed = TRUE]
    ELSE [acc EXCEPT !.source.children = RemoveNode(@, item.id), !.calls = @ + 1]

\* chrome.bookmarks.remove(item.id) of a child of the source: the host refuses
\* to remove a folder that has children.
BookmarksRemove(acc, item) ==
    IF Refused(acc) THEN Rejected(acc)
    ELSE IF item.children # <<>> THEN [acc EXCEPT !.calls = @ + 1, !.threw = TRUE]
    ELSE [acc EXCEPT !.source.children = RemoveNode(@, item.id), !.calls = @ + 1]

\* LocalStorage._mergeFolderContentsRecursive(sourceFolderId, targetFolderId):
\* the children of both are read once; a bookmark whose URL a child of the
\* target has is removed, any other is moved; a folder whose title a child
\* folder of the target has is merged into that one and then removed, any
\* other is moved.  An error ends the loop and is caught.  MergeItems is the
\* loop from the k-th child of the source on.
RECURSIVE MergeItems(_, _, _, _)
RECURSIVE mergeFolderContentsRecursive(_, _, _, _)
MergeItems(sourceChildren, targetChildren, k, acc) ==
    IF k > Len(sourceChildren) \/ acc.threw THEN acc
    ELSE LET sourceItem == sourceChildren[k]
             existsInTarget == \E j \in DOMAIN targetChildren :
                                   targetChildren[j].url = sourceItem.url
             isSubfolder(j) == /\ targetChildren[j].url = NoUrl
                               /\ targetChildren[j].title = sourceItem.title
             found == \E j \in DOMAIN targetChildren : isSubfolder(j)
             existingTargetSubfolder ==
                 targetChildren[CHOOSE j \in DOMAIN targetChildren :
                                   isSubfolder(j) /\ \A i \in 1..(j-1) : ~isSubfolder(i)]
             merged == mergeFolderContentsRecursive(
                           sourceItem, NodeById(acc.target.children, existingTargetSubfolder.id),
                           acc.done + acc.calls, acc.fails)
         IN MergeItems(sourceChildren, targetChildren, k + 1,
               IF sourceItem.url # NoUrl
               THEN IF existsInTarget THEN BookmarksRemove(acc, sourceItem)
                    ELSE BookmarksMove(acc, sourceItem)
               ELSE IF found
               THEN BookmarksRemove(
                       [acc EXCEPT !.source.children = ReplaceNode(@, merged.source),
                                   !.target.children = ReplaceNode(@, merged.target),
                                   !.calls = @ + merged.calls,
                                   !.failed = @ \/ merged.failed],
                       merged.source)
               ELSE BookmarksMove(acc, sourceItem))

mergeFolderContentsRecursive(source, target, done, fails) ==
    [MergeItems(source.children, target.children, 1,
                [source |-> source, target |-> target, calls |-> 0, threw |-> FALSE,
                 done |-> done, fails |-> fails, failed |-> FALSE])
        EXCEPT !.threw = FALSE]

\* group.sort((a, b) => a.dateAdded - b.dateAdded), left as it is.
SortByDateUnsorted(group) == group

\* group.sort((a, b) => a.dateAdded - b.dateAdded): oldest first, folders of
\* the same time in the order they had.
RECURSIVE SortByDate(_)
SortByDate(group) ==
    IF group = <<>> THEN <<>>
    ELSE LET n == Len(group)
             sorted == SortByDate(SubSeq(group, 1, n - 1))
             p == Cardinality({i \in DOMAIN sorted : sorted[i].dateAdded <= group[n].dateAdded})
         IN InsertAt(sorted, p + 1, group[n])

\* The inner loop of mergeDuplicateSpaceFolders from the i-th folder of the
\* sorted group on: the contents of the folder are merged into the target, and
\* the folder is removed; the host refuses when it still has children, or when
\* this is the call it refuses, and the error is caught.
RECURSIVE MergeGroup(_, _, _)
MergeGroup(acc, group, i) ==
    IF i > Len(group) THEN acc
    ELSE LET merged == mergeFolderContentsRecursive(NodeById(acc.tree, group[i].id),
                                                    NodeById(acc.tree, group[1].id),
                                                    acc.calls, acc.fails)
             tree1 == ReplaceNode(ReplaceNode(acc.tree, merged.target), merged.source)
             refused == acc.fails = acc.calls + merged.calls + 1
         IN MergeGroup([acc EXCEPT
                          !.tree = IF merged.source.children = <<>> /\ ~refused
                                   THEN RemoveNode(tree1, merged.source.id) ELSE tree1,
                          !.calls = acc.calls + merged.calls + 1,
                          !.failed = @ \/ merged.failed \/ refused],
                       group, i + 1)

\* The outer loop of mergeDuplicateSpaceFolders, from the k-th title on: a
\* title that more than one folder has gets its folders merged into the oldest.
RECURSIVE MergeTitles(_, _, _, _)
MergeTitles(acc, rootFolders, names, k) ==
    IF k > Len(names) THEN acc
    ELSE LET group == SelectSeq(rootFolders, LAMBDA f : f.title = names[k])
         IN MergeTitles(IF Len(group) > 1 THEN MergeGroup(acc, SortByDate(group), 2) ELSE acc,
                        rootFolders, names, k + 1)

\* LocalStorage.mergeDuplicateSpaceFolders() on the folders under the root:
\* the tree it leaves, and the number of move and remove calls it issued.  The
\* folders are grouped by title, the titles in the order of their first folder.
mergeDuplicateSpaceFolders(rootFolders, fails) ==
    MergeTitles([tree |-> rootFolders, calls |-> 0, fails |-> fails, failed |-> FALSE],
                rootFolders,
                UniqFrom([k \in DOMAIN rootFolders |-> rootFolders[k].title], <<>>), 1)

\* The trees a session can start with: up to MaxFolders folders under the root,
\* with a title and a creation time each, holding bookmarks and subfolders, at
\* most MaxChildren each and MaxNodes in all.  A subfolder is titled 1 and is
\* empty or holds one bookmark.
FolderTitles == 1..MaxFolderTitles
SeqsUpTo(S, n) == UNION {[1..k -> S] : k \in 0..n}
Leaf(u) == [url |-> u, title |-> 0, children |-> <<>>]
Subfolder(items) == [url |-> NoUrl, title |-> 1, children |-> items]
ItemShapes == {Leaf(u) : u \in Urls} \cup {Subfolder(<<>>), Subfolder(<<Leaf(1)>>)}
ChildShapes == SeqsUpTo(ItemShapes, MaxChildren)
RECURSIVE SumLen(_)
SumLen(lists) == IF lists = <<>> THEN 0 ELSE Len(Head(lists)) + SumLen(Tail(lists))
TreeShapes ==
    UNION {{[k \in 1..n |-> [title |-> t[k], dateAdded |-> d[k], children |-> c[k]]] :
               t \in [1..n -> FolderTitles], d \in [1..n -> 1..MaxDates],
               c \in {x \in [1..n -> ChildShapes] : SumLen(x) <= MaxNodes}} :
           n \in 0..MaxFolders}

\* Ids for the nodes of a tree, all different.
WithIds(t) ==
    [k \in DOMAIN t |->
        RootFolder(k, t[k].title, t[k].dateAdded,
            [j \in DOMAIN t[k].children |->
                TreeNode(10 * k + j, t[k].children[j].title, t[k].children[j].url,
                    [i \in DOMAIN t[k].children[j].children |->
                        TreeNode(100 * k + 10 * j + i, 0,
                                 t[k].children[j].children[i].url, <<>>)])])]

\* The tree of a session that starts with the two folders of Init.
StartupTree ==
    WithIds(<<[title |-> 1, dateAdded |-> 1, children |-> <<Leaf(2)>>],
              [title |-> 2, dateAdded |-> 2, children |-> <<Leaf(1)>>]>>)

\* mergeDuplicateSpaceFolders has not run yet.
NoMerge == [runs |-> 0, before |-> <<>>, found |-> <<>>, calls |-> 0, moved |-> 0,
           changed |-> FALSE, failed |-> FALSE]

\* ------------------------------------------------------------ the archive
\* utils.js keeps the archived tabs in chrome.storage.local under
\* 'archivedTabs', a list of records [url, name, spaceId, archivedAt]; the
\* name of a record is an argument that is only checked for being there.
MAX_ARCHIVED_TABS == 100

\* The contexts that call the archive functions of utils.js; each has its own
\* event loop, and a call of one runs between the awaits of a call of the other.
Callers == {"sidebar", "background"}

\* URLs of archived tabs: the one archived first in the archives of
\* InitArchive, and new ones.
ArchiveUrls == {1} \cup
               ((MAX_ARCHIVED_TABS + 1)..(MAX_ARCHIVED_TABS + MaxNewUrls))

Archived(url, spaceId, at) == [url |-> url, spaceId |-> spaceId, archivedAt |-> at]

\* A context with no archive call between its storage read and its write.
NoCall == [op |-> "none", read |-> <<>>, toSave |-> <<>>]

\* archivedTabs.find(t => t.url === tabData.url), finding nothing.
findArchivedNever(archived, url) == FALSE

\* archivedTabs.find(t => t.url === tabData.url): is there such a record.
findArchived(archived, url) == \E i \in DOMAIN archived : archived[i].url = url

\* archivedTabs.sort((a, b) => b.archivedAt - a.archivedAt), left as it is.
SortNewestFirstUnsorted(archived) == archived

\* archivedTabs.sort((a, b) => b.archivedAt - a.archivedAt): newest first,
\* records of the same time in the order they had.  A record comes after the
\* newer ones and after those of its time that stood before it.
SortNewestFirst(archived) ==
    With([i \in DOMAIN archived |->
             Cardinality({j \in DOMAIN archived :
                             \/ archived[j].archivedAt > archived[i].archivedAt
                             \/ archived[j].archivedAt = archived[i].archivedAt /\ j < i}) + 1],
         LAMBDA place :
             [p \in DOMAIN archived |->
                 archived[CHOOSE i \in DOMAIN archived : place[i] = p]])

\* addArchivedTab after its storage read: nothing to save when the arguments
\* are incomplete or the URL is archived already; otherwise the record is
\* pushed with the time of the clock, the list sorted and cut to the cap.
\* pushed is the sorted list before the cut, dropped what the cut took off.
addArchivedTab(archived, url, name, spaceId, at) ==
    IF url = NoUrl \/ name = NoName \/ spaceId = NoSpace \/ findArchived(archived, url)
    THEN [saves |-> FALSE, pushed |-> archived, dropped |-> <<>>, toSave |-> archived]
    ELSE With(SortNewestFirst(Append(archived, Archived(url, spaceId, at))), LAMBDA sorted :
         IF Len(sorted) > MAX_ARCHIVED_TABS
         THEN [saves |-> TRUE, pushed |-> sorted,
               dropped |-> SubSeq(sorted, MAX_ARCHIVED_TABS + 1, Len(sorted)),
               toSave |-> SubSeq(sorted, 1, MAX_ARCHIVED_TABS)]
         ELSE [saves |-> TRUE, pushed |-> sorted, dropped |-> <<>>, toSave |-> sorted])

\* removeArchivedTab after its storage read: the records of that URL in that
\* space are filtered out.
removeArchivedTab(archived, url, spaceId) ==
    SelectSeq(archived, LAMBDA t : ~(t.url = url /\ t.spaceId = spaceId))

\* An archive of n records as n calls of addArchivedTab at n different times
\* leave it, newest first.
StoredArchive(n) ==
    [i \in 1..n |-> Archived(n + 1 - i, ((n - i) % MaxGroups) + 1, n + 1 - i)]
ArchiveSizes == {MAX_ARCHIVED_TABS - 1, MAX_ARCHIVED_TABS}

\* No call of addArchivedTab has computed a list yet.
NoArchiving == [caller |-> "none", url |-> NoUrl, at |-> 0, read |-> <<>>,
                pushed |-> <<>>, dropped |-> <<>>, toSave |-> <<>>]
\* No write of the archive has landed yet.
NoSaving == [caller |-> "none", op |-> "none", read |-> <<>>, over |-> <<>>,
             saved |-> <<>>]

\* The archive of a session in which no tab was archived.
InitNoArchive ==
    /\ archivedTabs = <<>>
    /\ archiveCalls = [c \in Callers |-> NoCall]
    /\ now = MAX_ARCHIVED_TABS + 1
    /\ archiveEvents = 0
    /\ lastArchived = NoArchiving
    /\ lastSaved = NoSaving

\* The auto-archive check has not run yet.
NoCheck == [ran |-> FALSE, enabled |-> FALSE, minutes |-> 0, at |-> 0, closed |-> {},
            pinned |-> {}, active |-> NoTab, audible |-> {}, idleSince |-> <<>>]

\* No switch to a space with a live group yet.
NoSwitch == [space |-> NoSpace, updateTab |-> FALSE, outcome |-> "none", others |-> {},
             collapsed |-> {}, group |-> <<>>, lastTab |-> NoTab, target |-> NoTab,
             active |-> NoTab]

\* No list of spaces has been worked out yet.
NoMenu == [op |-> "none", tab |-> NoTab, active |-> <<>>, inactive |-> <<>>]

\* The active space has not been reloaded yet.
NoDrop == [space |-> NoSpace, type |-> "none", rendered |-> <<>>, before |-> <<>>,
           after |-> <<>>]
NoLoad == [space |-> NoSpace, invert |-> FALSE, shown |-> <<>>, urls |-> <<>>,
           states |-> <<>>]

InitSidebar ==
    /\ spaces = <<Space(1, 1, <<>>, <<1, 2>>)>>
    /\ storedSpaces = spaces
    /\ activeSpaceId = 1
    /\ isCreatingSpace = FALSE
    /\ isOpeningBookmark = FALSE
    /\ groupTabs = [g \in Groups |-> IF g = 1 THEN <<1, 2>> ELSE <<>>]
    /\ ungrouped = {}
    /\ tabUrl = [t \in Tabs |-> IF t \in {1, 2} THEN 1 ELSE NoUrl]
    /\ nextTabId = 3
    /\ nextGroupId = 2
    /\ spaceElements = {1}
    /\ rows = {Row("temporary", 1), Row("temporary", 2)}
    /\ folders = [n \in Names |-> IF n = 1 THEN << <<Bookmark(1, 2, 1)>> >>
                                ELSE IF n = 2 THEN << <<Bookmark(2, 1, 1)>> >> ELSE <<>>]
    /\ nextBookmarkId = 3
    /\ bookmarkOnly = {2}
    /\ lastOp = Other
    /\ events = 0
    /\ pins = [p \in Procs |-> Idle]
    /\ pendingTabMoves = [t \in Tabs |-> NoInfo]
    /\ debounceTimers = [t \in Tabs |-> 0]
    /\ processingTabMoves = {}
    /\ syncingToChrome = {}
    /\ syncTimers = <<>>
    /\ passes = <<>>
    /\ echoes = {}
    /\ movingToSpace = {}
    /\ lastMove = NoMove
    /\ lastRun = NoRun
    /\ burst = [t \in Tabs |-> NoBurst]
    /\ seqs = [p \in Procs |-> NoSeq]
    /\ lastCreated = NoCreated
    /\ reconcileRetryBySpace = [g \in Groups |-> NoRetry]
    /\ retryTimers = <<>>
    /\ lastAnswer = NoAnswer
    /\ lastFired = NoFired
    /\ lastActivated = NoActivation
    /\ lastDeleted = NoDeletion
    /\ lastClosed = NoClosing
    /\ pinnedTabStates = [t \in Tabs |-> NoState]
    /\ tabTitle = [t \in Tabs |-> 1]
    /\ lastPinned = NoPinning
    /\ lastLoaded = NoLoad
    /\ lastDrop = NoDrop
    /\ favoritesFolder = FALSE
    /\ lastMenu = NoMenu
    /\ settings = [autoArchiveEnabled |-> FALSE, autoArchiveIdleMinutes |-> MaxIdleMinutes]
    /\ tabLastActivity = [t \in Tabs |-> 0]
    /\ audible = {}
    /\ idleSince = [t \in Tabs |-> IF t = 1 THEN 0 ELSE MAX_ARCHIVED_TABS + 1]
    /\ lastCheck = NoCheck
    /\ lastTab = [g \in Groups |-> NoTab]
    /\ collapsed = {}
    /\ activeTab = 2
    /\ lastSwitch = NoSwitch
    /\ chromePinned = {}
    /\ pinnedFavicons = {}

\* The sidebar after initSidebar, the bookmark tree with no duplicate folder.
Init ==
    /\ InitSidebar
    /\ tree = StartupTree
    /\ lastMerge = NoMerge
    /\ InitNoArchive

\* The host opens a tab (in a group, next to its opener, or in no group) and
\* chrome.tabs.onCreated runs handleTabCreated: unless a space is being created
\* or a bookmark opened, the tab is moved into the active space as temporary.
HandleTabCreated(g, u) ==
    /\ Handled
    /\ nextTabId <= MaxTabs
    /\ g = NoSpace \/ GroupExists(Stores, g)
    /\ \E t \in {nextTabId} :
       \E st0 \in {[Stores EXCEPT !.tabUrl[t] = u,
                                  !.ungrouped = IF g = NoSpace THEN @ \cup {t} ELSE @,
                                  !.groupTabs = IF g = NoSpace THEN @
                                                ELSE [@ EXCEPT ![g] = Append(@, t)]]} :
       \E st1 \in {IF isCreatingSpace \/ isOpeningBookmark
                       \/ SpaceById(spaces, activeSpaceId) = 0
                    THEN st0
                    ELSE moveTabToSpace(st0, t, activeSpaceId, FALSE, spaceElements)} :
          /\ Commit(st1)
          /\ nextTabId' = t + 1
          /\ lastOp' = IF st1.spaces = st0.spaces THEN Other ELSE Op("moveTabToSpace", t, st1, FALSE)
    /\ UNCHANGED <<activeSpaceId, isCreatingSpace, isOpeningBookmark, nextGroupId, spaceElements>>

\* The user closes a tab in the host's tab strip; chrome.tabs.onRemoved runs
\* handleTabRemove.
HandleTabRemove(t) ==
    /\ HandledSpace
    /\ IsOpen(Stores, t)
    /\ \E st0 \in {TabsRemove(Stores, t)} :
       \E st1 \in {handleTabRemove(st0, t, tabUrl[t], activeSpaceId)} :
          /\ Commit(st1)
          /\ lastOp' = Other
          /\ lastClosed' = Closing(Stores, st1, activeSpaceId, t, "host")
    /\ UNCHANGED <<activeSpaceId, isCreatingSpace, isOpeningBookmark, nextTabId, nextGroupId,
                   spaceElements, lastActivated, lastDeleted>>

\* The close button of a live row: closeTab, then, when it removed the tab,
\* the handleTabRemove the host's onRemoved event runs.
CloseTab(row) ==
    /\ HandledSpace
    /\ row \in rows
    /\ IsOpen(Stores, row.tabId)
    /\ Len(InGroup(Stores, activeSpaceId)) >= 2
    /\ \E st0 \in {Stores} :
       \E st1 \in {closeTab(st0, row, activeSpaceId)} :
       \E st2 \in {IF IsOpen(st1, row.tabId) THEN st1
                    ELSE handleTabRemove(st1, row.tabId, tabUrl[row.tabId], activeSpaceId)} :
          /\ Commit(st2)
          /\ lastOp' = Other
          /\ lastClosed' = Closing(st0, st2, activeSpaceId, row.tabId, "button")
    /\ UNCHANGED <<activeSpaceId, isCreatingSpace, isOpeningBookmark, nextTabId, nextGroupId,
                   spaceElements, lastActivated, lastDeleted>>

\* A click on a bookmark-only row whose URL is shown by an open tab.
OpenExistingTab(url) ==
    /\ Handled
    /\ url \in bookmarkOnly
    /\ findTabByUrl(Stores, url) # NoTab
    /\ \E st0 \in {Stores} :
       \E st1 \in {openExistingTab(st0, url, findTabByUrl(st0, url),
                                   RowBookmarkId(st0, activeSpaceId, url))} :
          /\ Commit(st1)
          /\ lastOp' = Other
    /\ UNCHANGED <<activeSpaceId, isCreatingSpace, isOpeningBookmark, nextTabId, nextGroupId,
                   spaceElements>>

\* "Pin" / "Unpin" from the context menu or the quick-pin command.
TogglePin(t, outcome, passFirst) ==
    /\ Handled
    /\ IsOpen(Stores, t)
    /\ \E st0 \in {Stores} :
       \E st1 \in {togglePin(st0, t, spaceElements, outcome, passFirst)} :
          /\ outcome # "ok" => st1.moveCalls >= 1
          /\ Commit(st1)
          /\ lastOp' = Op("togglePin", t, st1, FALSE)
    /\ UNCHANGED <<activeSpaceId, isCreatingSpace, isOpeningBookmark, nextTabId, nextGroupId,
                   spaceElements>>

\* The user drags tab t in the host's tab strip to position p of group g (or
\* out of every group); the onMoved event passes the guards of handleTabMove
\* and, after the debounce delay, processTabMove runs.  An outcome other than
\* "ok" is the host's answer to a batched move the handler issued.
HostTabMoved(t, g, p, outcome1, outcome2) ==
    /\ Handled
    /\ IsOpen(Stores, t)
    /\ p \in 1..(Len(Without(InGroup(Stores, g), t)) + 1)
    /\ \E st0 \in {[Stores EXCEPT
                     !.ungrouped = IF g = NoSpace THEN @ \cup {t} ELSE @ \ {t},
                     !.groupTabs = [h \in Groups |->
                          IF h = g THEN InsertAt(Without(@[h], t), p, t) ELSE Without(@[h], t)]]} :
       /\ <<st0.groupTabs, st0.ungrouped>> # <<groupTabs, ungrouped>>
       /\ \E st1 \in {processTabMove(st0, t, spaceElements, outcome1, outcome2)} :
          /\ outcome1 # "ok" => st1.moveCalls >= 1
          /\ outcome2 # "ok" => st1.moveCalls >= 2
          /\ Commit(st1)
          /\ lastOp' = Op(IF MovedBetweenSpaces(st0, t) THEN "processTabMoveBetweenSpaces"
                          ELSE "processTabMove", t, st1, BookmarkAfterTemp(st0, t))
    /\ UNCHANGED <<activeSpaceId, isCreatingSpace, isOpeningBookmark, nextTabId, nextGroupId,
                   spaceElements>>

\* createNewSpace() with the typed name.  A name already taken (or empty) makes
\* it return with isCreatingSpace still set; otherwise a new tab in a new group
\* becomes the one temporary tab of the new, active space.
createNewSpace(name, u) ==
    /\ IF name = NoName \/ \E i \in DOMAIN spaces : toLowerCase(spaces[i].name) = toLowerCase(name)
       THEN /\ isCreatingSpace' = TRUE
            /\ lastOp' = Other
            /\ UNCHANGED <<spaces, storedSpaces, activeSpaceId, isOpeningBookmark, groupTabs,
                           ungrouped, tabUrl, nextTabId, nextGroupId, spaceElements, rows,
                           bookmarkOnly, folders, nextBookmarkId, pinnedTabStates>>
       ELSE /\ nextTabId <= MaxTabs
            /\ nextGroupId <= MaxGroups
            /\ \E t \in {nextTabId}, g \in {nextGroupId} :
               \E st0 \in {createNewTabGroup([Stores EXCEPT !.tabUrl[t] = u], t, g)} :
               \E st1 \in {getOrCreateSpaceFolder(st0, name)} :
               \E st2 \in {[st1 EXCEPT !.spaces = Append(@, Space(g, name, <<>>, <<t>>))]} :
               \E st3 \in {saveSpaces(loadTabs(st2, name, <<t>>))} :
                  /\ Commit(st3)
                  /\ nextTabId' = t + 1
                  /\ nextGroupId' = g + 1
                  /\ spaceElements' = spaceElements \cup {g}
                  /\ activeSpaceId' = g
                  /\ isCreatingSpace' = FALSE
                  /\ lastOp' = Other
            /\ UNCHANGED isOpeningBookmark

CreateNewSpace(name, u) == Handled /\ createNewSpace(name, u)

\* "Move to space" onto a folder whose space is not open.
CreateSpaceFromInactive(name, t) ==
    /\ Handled
    /\ IsOpen(Stores, t)
    /\ HasFolder(Stores, name)
    /\ \A i \in DOMAIN spaces : spaces[i].name # name
    /\ nextGroupId <= MaxGroups
    /\ \E g \in {nextGroupId}, st0 \in {Stores} :
       \E st1 \in {createSpaceFromInactive(st0, name, t, g)} :
          /\ Commit(st1)
          /\ nextGroupId' = g + 1
          /\ spaceElements' = spaceElements \cup {g}
          /\ activeSpaceId' = g
          /\ isCreatingSpace' = FALSE
          /\ lastOp' = Op("createSpaceFromInactive", t, st1, FALSE)
    /\ UNCHANGED <<isOpeningBookmark, nextTabId>>

\* setActiveSpace(spaceId) on the stores, after activeSpaceId was set: a space
\* whose group is gone gets a new tab t in a new group g, and its record is
\* replaced by a copy with the id of the group; the array is saved.
setActiveSpace(st, spaceId, t, g, u) ==
    IF GroupExists(st, spaceId) THEN st
    ELSE With(createNewTabGroup([st EXCEPT !.tabUrl[t] = u], t, g), LAMBDA st0 :
         saveSpaces([st0 EXCEPT !.spaces = [i \in DOMAIN @ |->
                        IF @[i].id = spaceId THEN [@[i] EXCEPT !.id = g] ELSE @[i]]]))

\* What a call of setActiveSpace(spaceId) left: whether it made a new group,
\* whether the record it changed differs from the record before in its id only,
\* the ids of the records and the active id.
Activation(before, after, spaceId, g, active) ==
    [old |-> spaceId, new |-> g, recreated |-> ~GroupExists(before, spaceId),
     kept |-> \E i \in DOMAIN before.spaces \cap DOMAIN after.spaces :
                 /\ before.spaces[i].id = spaceId
                 /\ after.spaces[i] = [before.spaces[i] EXCEPT !.id = g],
     ids |-> {after.spaces[i].id : i \in DOMAIN after.spaces},
     active |-> active]

\* The user picks a space in the switcher: setActiveSpace(spaceId).  A space
\* whose group is gone gets a new tab in a new group and the group's id, while
\* activeSpaceId keeps the id it was given.
SetActiveSpace(spaceId, u) ==
    /\ HandledSpace
    /\ SpaceById(spaces, spaceId) # 0
    /\ activeSpaceId' = spaceId
    /\ IF GroupExists(Stores, spaceId)
       THEN /\ activeSpaceId # spaceId
            /\ lastOp' = Other
            /\ lastActivated' = Activation(Stores, Stores, spaceId, spaceId, spaceId)
            /\ UNCHANGED <<spaces, storedSpaces, isCreatingSpace, groupTabs, ungrouped, tabUrl,
                           nextTabId, nextGroupId, rows, bookmarkOnly, folders, nextBookmarkId, pinnedTabStates>>
       ELSE /\ nextTabId <= MaxTabs
            /\ nextGroupId <= MaxGroups
            /\ \E t \in {nextTabId}, g \in {nextGroupId} :
               \E st1 \in {setActiveSpace(Stores, spaceId, t, g, u)} :
                  /\ Commit(st1)
                  /\ nextTabId' = t + 1
                  /\ nextGroupId' = g + 1
                  /\ isCreatingSpace' = FALSE
                  /\ lastOp' = Other
                  /\ lastActivated' = Activation(Stores, st1, spaceId, g, spaceId)
    /\ UNCHANGED <<isOpeningBookmark, spaceElements, lastDeleted, lastClosed>>

\* The user activates a tab in the host; handleTabActivated switches the active
\* space to the space holding the tab, unless a space is being created.
HandleTabActivated(t) ==
    /\ Handled
    /\ IsOpen(Stores, t)
    /\ ~isCreatingSpace
    /\ SpaceWithTab(spaces, t) # 0
    /\ spaces[SpaceWithTab(spaces, t)].id # activeSpaceId
    /\ activeSpaceId' = spaces[SpaceWithTab(spaces, t)].id
    /\ storedSpaces' = spaces
    /\ lastOp' = Other
    /\ UNCHANGED <<spaces, isCreatingSpace, isOpeningBookmark, groupTabs, ungrouped, tabUrl,
                   nextTabId, nextGroupId, spaceElements, rows, bookmarkOnly, folders, nextBookmarkId, pinnedTabStates>>

Outcomes == {"ok", "busy", "error"}

Next ==
    \/ \E g \in Groups \cup {NoSpace}, u \in Urls : HandleTabCreated(g, u)
    \/ \E t \in Tabs : HandleTabRemove(t)
    \/ \E row \in rows : CloseTab(row)
    \/ \E u \in Urls : OpenExistingTab(u)
    \/ \E t \in Tabs, o \in Outcomes, passFirst \in BOOLEAN : TogglePin(t, o, passFirst)
    \/ \E t \in Tabs, g \in Groups \cup {NoSpace}, p \in 1..MaxTabs, o1, o2 \in Outcomes :
          HostTabMoved(t, g, p, o1, o2)
    \/ \E n \in Names, u \in Urls : CreateNewSpace(n, u)
    \/ \E n \in Names, t \in Tabs : CreateSpaceFromInactive(n, t)
    \/ \E g \in Groups, u \in Urls : SetActiveSpace(g, u)
    \/ \E t \in Tabs : HandleTabActivated(t)

Spec == Init /\ [][Next]_vars

\* ------------------------------------------- pin and unpin, await by await
\* The same listener and the same moveTabToPinned / moveTabToTemp, with every
\* await of the latter a point where another command can run.  moveTabToSpace
\* has updated the array by the time the first await of the second call is over.
PinFrame == UNCHANGED <<activeSpaceId, isCreatingSpace, isOpeningBookmark, nextTabId,
                        nextGroupId, spaceElements, lastOp, moveVars, flagVars, retryVars,
                        spaceVars, restVars, switchVars>>
PinGoes(p, phase) == pins' = [pins EXCEPT ![p].phase = phase]

\* The command arrives: the listener finds the tab in the stored copy and calls
\* moveTabToSpace and moveTabToPinned / moveTabToTemp.
PinBegin(p, t) ==
    /\ events < MaxEvents
    /\ events' = events + 1
    /\ pins[p].phase \in {"idle", "done"}
    /\ IsOpen(Stores, t)
    /\ \E st0 \in {Stores} :
       LET copy == st0.storedSpaces
           asTemp == FindSpace(copy, LAMBDA s : Includes(s.temporaryTabs, t))
           asBookmark == FindSpace(copy, LAMBDA s : Includes(s.spaceBookmarks, t))
           i == IF asTemp # 0 THEN asTemp ELSE asBookmark
       IN /\ i # 0
          /\ \E st1 \in {moveTabToSpace(st0, t, copy[i].id, asTemp # 0, spaceElements)} :
                Commit(st1)
          /\ pins' = [pins EXCEPT ![p] =
                [phase |-> IF asTemp # 0 THEN "folder" ELSE "remove",
                 kind |-> IF asTemp # 0 THEN "pin" ELSE "unpin",
                 tab |-> t, space |-> copy[i].id, name |-> copy[i].name, url |-> tabUrl[t],
                 bookmarkId |-> NoBookmark, read |-> <<>>]]
    /\ PinFrame

\* moveTabToPinned: await LocalStorage.getOrCreateSpaceFolder(space.name).
PinFolder(p) ==
    /\ pins[p].phase = "folder"
    /\ Commit(getOrCreateSpaceFolder(Stores, pins[p].name))
    /\ PinGoes(p, "children")
    /\ PinFrame /\ UNCHANGED events

\* moveTabToPinned: await chrome.bookmarks.getChildren, then findBookmarkByUrl
\* on what it returned; with a bookmark of the URL there, nothing is created
\* and its id is the one to store.
PinChildren(p) ==
    /\ pins[p].phase = "children"
    /\ \E existingBookmark \in
           {findBookmarkByUrl(FolderBookmarks(Stores, pins[p].name), pins[p].url)} :
          pins' = [pins EXCEPT ![p].phase = IF existingBookmark # NoBookmark
                                            THEN "stateRead" ELSE "remove",
                               ![p].bookmarkId = existingBookmark]
    /\ PinFrame
    /\ UNCHANGED <<events, spaces, storedSpaces, groupTabs, ungrouped, tabUrl, rows,
                   bookmarkOnly, folders, nextBookmarkId, pinnedTabStates>>

\* await BookmarkUtils.removeBookmarkByUrl, of moveTabToPinned and of moveTabToTemp.
PinRemove(p) ==
    /\ pins[p].phase = "remove"
    /\ Commit(removeBookmarkByUrl(Stores, pins[p].name, pins[p].url))
    /\ PinGoes(p, IF pins[p].kind = "pin" THEN "create" ELSE "stateRead")
    /\ PinFrame /\ UNCHANGED events

\* moveTabToPinned: await chrome.bookmarks.create; the id of the bookmark
\* created is the one to store.
PinCreate(p) ==
    /\ pins[p].phase = "create"
    /\ Commit(CreateBookmark(Stores, pins[p].name, pins[p].url, tabTitle[pins[p].tab]))
    /\ pins' = [pins EXCEPT ![p].phase = "stateRead", ![p].bookmarkId = nextBookmarkId]
    /\ PinFrame /\ UNCHANGED events

\* Utils.setPinnedTabState / Utils.removePinnedTabState: await
\* getPinnedTabStates() reads the stored states.
PinStateRead(p) ==
    /\ pins[p].phase = "stateRead"
    /\ pins' = [pins EXCEPT ![p].phase = "stateWrite", ![p].read = pinnedTabStates]
    /\ PinFrame
    /\ UNCHANGED <<events, spaces, storedSpaces, groupTabs, ungrouped, tabUrl, rows,
                   bookmarkOnly, folders, nextBookmarkId, pinnedTabStates>>

\* Utils.setPinnedTabState / Utils.removePinnedTabState: the states read, with
\* the entry of the tab set or deleted, are written back; removePinnedTabState
\* writes nothing when it read no entry for the tab.
PinStateWrite(p) ==
    /\ pins[p].phase = "stateWrite"
    /\ pinnedTabStates' =
          IF pins[p].kind = "pin"
          THEN [pins[p].read EXCEPT ![pins[p].tab] = PinnedState(pins[p].url, pins[p].bookmarkId)]
          ELSE IF pins[p].read[pins[p].tab].stored
          THEN [pins[p].read EXCEPT ![pins[p].tab] = NoState]
          ELSE pinnedTabStates
    /\ pins' = [pins EXCEPT ![p].phase = IF pins[p].kind = "pin" THEN "pass" ELSE "save",
                            ![p].read = <<>>]
    /\ PinFrame
    /\ UNCHANGED <<events, spaces, storedSpaces, groupTabs, ungrouped, tabUrl, rows,
                   bookmarkOnly, folders, nextBookmarkId>>

\* moveTabToTemp: the copy is updated and saveSpaces() stores the array.
UnpinSave(p) ==
    /\ pins[p].phase = "save"
    /\ Commit(saveSpaces(Stores))
    /\ PinGoes(p, "pass")
    /\ PinFrame /\ UNCHANGED events

\* The pass that ends both, source 'arcify'.
PinPass(p, outcome) ==
    /\ pins[p].phase = "pass"
    /\ \E st0 \in {Stores} :
       \E st1 \in {Reconcile(st0, pins[p].space, "arcify", pins[p].tab, outcome)} :
          /\ outcome # "ok" => st1.moveCalls >= 1
          /\ Commit(st1)
    /\ PinGoes(p, "done")
    /\ PinFrame /\ UNCHANGED events

NextPin ==
    \/ \E p \in Procs, t \in Tabs : PinBegin(p, t)
    \/ \E p \in Procs : PinFolder(p)
    \/ \E p \in Procs : PinChildren(p)
    \/ \E p \in Procs : PinRemove(p)
    \/ \E p \in Procs : PinCreate(p)
    \/ \E p \in Procs : PinStateRead(p)
    \/ \E p \in Procs : PinStateWrite(p)
    \/ \E p \in Procs : UnpinSave(p)
    \/ \E p \in Procs, o \in Outcomes : PinPass(p, o)

SpecPin == Init /\ [][NextPin]_vars

\* ------------------------------------------- pinning, unpinning, navigation
\* handleBookmarkOperations for a live temporary row dropped on the pinned
\* section of a space: the tab goes from the temporary tabs to the bookmarks
\* of the space, moveTabToPinned(space, tab) runs on the space of the array and
\* the array is saved; an error of moveTabToPinned is caught before the save.
dropToPinned(st, t, spaceId, outcome) ==
    LET i == SpaceById(st.spaces, spaceId)
    IN IF i = 0 THEN st
       ELSE With([st EXCEPT !.spaces[i].temporaryTabs = Without(@, t),
                            !.spaces[i].spaceBookmarks =
                                IF Includes(@, t) THEN @ ELSE Append(@, t),
                            !.rows = (@ \ {Row("temporary", t)}) \cup {Row("pinned", t)}],
                 LAMBDA st1 :
            With(moveTabToPinned(st1, TRUE, spaceId, st.spaces[i].name, t, outcome),
                 LAMBDA st2 : IF st2.threw THEN st2 ELSE saveSpaces(st2)))

\* handleBookmarkOperations for a live pinned row dropped on the temporary
\* section: moveTabToTemp(space, tab) on the active space of the array, with
\* the tab as chrome.tabs.get returns it.
dropToTemporary(st, t, active, outcome) ==
    LET a == SpaceById(st.spaces, active)
    IN IF a = 0 THEN st
       ELSE moveTabToTemp([st EXCEPT !.rows = (@ \ {Row("pinned", t)})
                                               \cup {Row("temporary", t)}],
                          TRUE, active, st.spaces[a].name, t, outcome)

\* [...ids].reverse()
Reverse(seq) == [i \in 1..Len(seq) |-> seq[Len(seq) + 1 - i]]

\* getTempSectionTabIds / getFlattenedPinnedSectionTabIds read the rows of a
\* section in the element of the space: the rows of the tabs of its group and
\* the row that was dropped there.  The rows are kept without their order, so
\* the order on display is any order of these ids.
RenderedIds(st, spaceId, section, dropped) ==
    {t \in Tabs : Row(section, t) \in st.rows /\ (GroupOf(st, t) = spaceId \/ t = dropped)}
DisplayOrders(ids) ==
    {order \in [1..Cardinality(ids) -> ids] :
        \A i, j \in 1..Cardinality(ids) : order[i] = order[j] => i = j}

\* The handler keeping only the rendered ids.
handleBarCatOrderChangeAfterDropRenderedOnly(st, tabId, spaceId, tabType, displayOrder, invert, outcome) ==
    LET i == SpaceById(st.spaces, spaceId)
        ids == IF invert THEN Reverse(displayOrder) ELSE displayOrder
    IN IF i = 0 THEN st
       ELSE Reconcile(IF tabType = "temporary"
                      THEN [st EXCEPT !.spaces[i].temporaryTabs = uniqPreserveOrder(ids)]
                      ELSE [st EXCEPT !.spaces[i].spaceBookmarks = uniqPreserveOrder(ids)],
                      spaceId, "arcify", tabId, outcome)

\* handleBarCatOrderChangeAfterDropByTabId(tabId, container): the array of the
\* section becomes the rendered ids in host order (the order on display,
\* reversed when invertTabOrder is on) followed by its ids that are not
\* rendered; then the pass of source 'arcify' runs.
handleBarCatOrderChangeAfterDropByTabId(st, tabId, spaceId, tabType, displayOrder, invert, outcome) ==
    LET i == SpaceById(st.spaces, spaceId)
        ids == IF invert THEN Reverse(displayOrder) ELSE displayOrder
        existing(array) == SelectSeq(array, LAMBDA id : ~Includes(ids, id))
    IN IF i = 0 THEN st
       ELSE Reconcile(IF tabType = "temporary"
                      THEN [st EXCEPT !.spaces[i].temporaryTabs =
                                          uniqPreserveOrder(ids \o existing(@))]
                      ELSE [st EXCEPT !.spaces[i].spaceBookmarks =
                                          uniqPreserveOrder(ids \o existing(@))],
                      spaceId, "arcify", tabId, outcome)

\* What the end of a drop did: the rendered ids in host order, the array of
\* the section before the handler wrote it and after the handler ended.
Dropped(before, after, spaceId, tabType, displayOrder, invertTabOrder) ==
    LET i == SpaceById(before.spaces, spaceId)
        j == SpaceById(after.spaces, spaceId)
        array(s) == IF tabType = "temporary" THEN s.temporaryTabs ELSE s.spaceBookmarks
    IN [space |-> spaceId, type |-> tabType,
        rendered |-> IF invertTabOrder THEN Reverse(displayOrder) ELSE displayOrder,
        before |-> IF i = 0 THEN <<>> ELSE array(before.spaces[i]),
        after |-> IF j = 0 THEN <<>> ELSE array(after.spaces[j])]

PinnedFrame ==
    /\ events < MaxEvents
    /\ events' = events + 1
    /\ lastOp' = Other
    /\ UNCHANGED <<activeSpaceId, isCreatingSpace, isOpeningBookmark, nextTabId, nextGroupId,
                   spaceElements, pinVars, moveVars, flagVars, retryVars, spaceVars,
                   mergeVars, archiveVars, loadVars, hostPinVars, moreVars, switchVars>>

\* The page of tab t navigates to URL u and its title becomes title;
\* handleTabUpdate relabels the row of the tab and leaves the bookmarks and
\* the Pinned Tab State alone.
Navigate(t, u, title) ==
    /\ PinnedFrame
    /\ IsOpen(Stores, t)
    /\ <<u, title>> # <<tabUrl[t], tabTitle[t]>>
    /\ tabUrl' = [tabUrl EXCEPT ![t] = u]
    /\ tabTitle' = [tabTitle EXCEPT ![t] = title]
    /\ UNCHANGED <<spaces, storedSpaces, groupTabs, ungrouped, rows, bookmarkOnly, folders,
                   nextBookmarkId, pinnedTabStates, lastPinned, lastDrop, moreVars, switchVars>>

\* The user drags the temporary row of tab t to the pinned section of the
\* active space: handleBookmarkOperations, then the order of the section is
\* read back from the rows.
DropToPinned(t, outcome, invertTabOrder) ==
    /\ PinnedFrame
    /\ IsOpen(Stores, t)
    /\ Row("temporary", t) \in rows
    /\ activeSpaceId \in spaceElements
    /\ \E st0 \in {Stores} :
       \E st1 \in {dropToPinned(st0, t, activeSpaceId, outcome)} :
       \E displayOrder \in DisplayOrders(RenderedIds(st1, activeSpaceId, "pinned", t)) :
       \E st2 \in {handleBarCatOrderChangeAfterDropByTabId(
                       st1, t, activeSpaceId, "pinned", displayOrder, invertTabOrder,
                       outcome)} :
          /\ outcome # "ok" => st2.moveCalls >= 1
          /\ Commit(st2)
          /\ lastPinned' = Pinning(st0, st2, "pin", "drop", t, activeSpaceId)
          /\ lastDrop' = Dropped(st1, st2, activeSpaceId, "pinned", displayOrder,
                                 invertTabOrder)
    /\ UNCHANGED tabTitle

\* The user drags the pinned row of tab t to the temporary section:
\* handleBookmarkOperations, then the order of the section is read back from
\* the rows.
DropToTemporary(t, outcome, invertTabOrder) ==
    /\ PinnedFrame
    /\ IsOpen(Stores, t)
    /\ Row("pinned", t) \in rows
    /\ \E st0 \in {Stores} :
       \E st1 \in {dropToTemporary(st0, t, activeSpaceId, outcome)} :
       \E displayOrder \in DisplayOrders(RenderedIds(st1, activeSpaceId, "temporary", t)) :
       \E st2 \in {handleBarCatOrderChangeAfterDropByTabId(
                       st1, t, activeSpaceId, "temporary", displayOrder, invertTabOrder,
                       outcome)} :
          /\ outcome # "ok" => st2.moveCalls >= 1
          /\ Commit(st2)
          /\ lastPinned' = Pinning(st0, st2, "unpin", "drop", t, activeSpaceId)
          /\ lastDrop' = Dropped(st1, st2, activeSpaceId, "temporary", displayOrder,
                                 invertTabOrder)
    /\ UNCHANGED tabTitle

\* "Pin" / "Unpin" from the context menu or the quick-pin command, on the
\* space that holds the tab in the stored copy.
QuickPin(t, outcome, passFirst) ==
    /\ PinnedFrame
    /\ IsOpen(Stores, t)
    /\ \E st0 \in {Stores} :
       \E st1 \in {togglePin(st0, t, spaceElements, outcome, passFirst)} :
       LET copy == st0.storedSpaces
           asTemp == FindSpace(copy, LAMBDA s : Includes(s.temporaryTabs, t))
           asBookmark == FindSpace(copy, LAMBDA s : Includes(s.spaceBookmarks, t))
           i == IF asTemp # 0 THEN asTemp ELSE asBookmark
       IN /\ i # 0
          /\ outcome # "ok" => st1.moveCalls >= 1
          /\ Commit(st1)
          /\ lastPinned' = Pinning(st0, st1, IF asTemp # 0 THEN "pin" ELSE "unpin",
                                   "command", t, copy[i].id)
    /\ UNCHANGED <<tabTitle, lastDrop, moreVars, switchVars>>

NextPinned ==
    \/ \E g \in Groups \cup {NoSpace}, u \in Urls : HandleTabCreated(g, u)
    \/ \E t \in Tabs : HandleTabRemove(t)
    \/ \E name \in Names, u \in Urls : CreateNewSpace(name, u)
    \/ \E t \in Tabs, u \in Urls, title \in Titles : Navigate(t, u, title)
    \/ \E t \in Tabs, o \in Outcomes, invert \in BOOLEAN : DropToPinned(t, o, invert)
    \/ \E t \in Tabs, o \in Outcomes, invert \in BOOLEAN : DropToTemporary(t, o, invert)
    \/ \E t \in Tabs, o \in Outcomes, passFirst \in BOOLEAN : QuickPin(t, o, passFirst)

SpecPinned == Init /\ [][NextPinned]_vars

\* ---------------------------------------- startup with duplicate folders
\* A session that starts with any of the trees.
InitMerge ==
    /\ \E t \in TreeShapes : tree = WithIds(t)
    /\ lastMerge = NoMerge
    /\ InitSidebar
    /\ InitNoArchive

\* initSidebar awaits LocalStorage.mergeDuplicateSpaceFolders(); the sidebar is
\* opened again later in the session and runs it again.  The host refuses the
\* fails-th call of the run, none when fails = 0.  before is the tree the first
\* run found, found the tree this run found, moved the number of calls the
\* first run issued, and failed tells that the host refused a call of this run
\* or of an earlier one.
MergeDuplicateSpaceFolders(fails) ==
    /\ lastMerge.runs < MaxMergeRuns
    /\ \E r \in {mergeDuplicateSpaceFolders(tree, fails)} :
          /\ fails # 0 => r.failed
          /\ tree' = r.tree
          /\ lastMerge' = [runs |-> lastMerge.runs + 1,
                           before |-> IF lastMerge.runs = 0 THEN tree ELSE lastMerge.before,
                           found |-> tree,
                           calls |-> r.calls,
                           moved |-> IF lastMerge.runs = 0 THEN r.calls ELSE lastMerge.moved,
                           changed |-> r.tree # tree,
                           failed |-> lastMerge.failed \/ r.failed]
    /\ UNCHANGED <<spaces, storedSpaces, activeSpaceId, isCreatingSpace, isOpeningBookmark,
                   groupTabs, ungrouped, tabUrl, nextTabId, nextGroupId, spaceElements, rows,
                   bookmarkOnly, folders, nextBookmarkId, pinnedTabStates, lastOp, events,
                   pinVars, moveVars, flagVars, retryVars, spaceVars, pinnedVars,
                   archiveVars, loadVars, dropVars, moreVars, switchVars, hostPinVars>>

NextMerge == \E fails \in 0..MaxFailAt : MergeDuplicateSpaceFolders(fails)

SpecMerge == InitMerge /\ [][NextMerge]_vars

\* ------------------------------------------------- sessions of the archive
\* A session that starts with an archive one record short of the cap or at it.
InitArchive ==
    /\ \E n \in ArchiveSizes : archivedTabs = StoredArchive(n)
    /\ archiveCalls = [c \in Callers |-> NoCall]
    /\ now = MAX_ARCHIVED_TABS + 1
    /\ archiveEvents = 0
    /\ lastArchived = NoArchiving
    /\ lastSaved = NoSaving
    /\ InitSidebar
    /\ tree = StartupTree
    /\ lastMerge = NoMerge

ArchiveFrame ==
    UNCHANGED <<spaces, storedSpaces, activeSpaceId, isCreatingSpace, isOpeningBookmark,
                nextGroupId, spaceElements, rows, bookmarkOnly, folders, nextBookmarkId,
                pinnedTabStates, lastOp, events, pinVars, moveVars, flagVars, retryVars,
                spaceVars, pinnedVars, mergeVars, loadVars, dropVars, moreVars, switchVars, hostPinVars>>
HostTabsFrame == UNCHANGED <<groupTabs, ungrouped, tabUrl, nextTabId>>

\* Date.now() moves on.
Tick ==
    /\ now < MAX_ARCHIVED_TABS + 1 + MaxTicks
    /\ now' = now + 1
    /\ UNCHANGED <<archivedTabs, archiveCalls, archiveEvents, lastArchived, lastSaved>>
    /\ ArchiveFrame
    /\ HostTabsFrame

\* Context c calls addArchivedTab: the call returns at once or reads the
\* archive and works out the list it is about to save.
AddArchivedTab(c, url, name, spaceId) ==
    /\ archiveCalls[c] = NoCall
    /\ archiveEvents < MaxArchiveCalls
    /\ archiveEvents' = archiveEvents + 1
    /\ \E r \in {addArchivedTab(archivedTabs, url, name, spaceId, now)} :
          /\ archiveCalls' = IF r.saves
                             THEN [archiveCalls EXCEPT ![c] = [op |-> "add",
                                                               read |-> archivedTabs,
                                                               toSave |-> r.toSave]]
                             ELSE archiveCalls
          /\ lastArchived' = IF r.saves
                             THEN [caller |-> c, url |-> url, at |-> now,
                                   read |-> archivedTabs, pushed |-> r.pushed,
                                   dropped |-> r.dropped, toSave |-> r.toSave]
                             ELSE lastArchived
    /\ UNCHANGED <<archivedTabs, now, lastSaved>>
    /\ ArchiveFrame
    /\ HostTabsFrame

\* Context c calls removeArchivedTab: it returns at once without both
\* arguments, or reads the archive and filters it.
RemoveArchivedTab(c, url, spaceId) ==
    /\ archiveCalls[c] = NoCall
    /\ archiveEvents < MaxArchiveCalls
    /\ archiveEvents' = archiveEvents + 1
    /\ archiveCalls' = IF url = NoUrl \/ spaceId = NoSpace THEN archiveCalls
                       ELSE [archiveCalls EXCEPT ![c] =
                                [op |-> "remove", read |-> archivedTabs,
                                 toSave |-> removeArchivedTab(archivedTabs, url, spaceId)]]
    /\ UNCHANGED <<archivedTabs, now, lastArchived, lastSaved>>
    /\ ArchiveFrame
    /\ HostTabsFrame

\* Context c calls restoreArchivedTab with a record it read from the archive
\* earlier: a tab of the URL is created and put into the group of the record
\* if that group is still there, then removeArchivedTab reads the archive.
RestoreArchivedTab(c, url, spaceId) ==
    /\ archiveCalls[c] = NoCall
    /\ archiveEvents < MaxArchiveCalls
    /\ archiveEvents' = archiveEvents + 1
    /\ nextTabId <= MaxTabs
    /\ tabUrl' = [tabUrl EXCEPT ![nextTabId] = url]
    /\ nextTabId' = nextTabId + 1
    /\ IF GroupExists(Stores, spaceId)
       THEN /\ groupTabs' = [groupTabs EXCEPT ![spaceId] = Append(@, nextTabId)]
            /\ UNCHANGED ungrouped
       ELSE /\ ungrouped' = ungrouped \cup {nextTabId}
            /\ UNCHANGED groupTabs
    /\ archiveCalls' = [archiveCalls EXCEPT ![c] =
                           [op |-> "restore", read |-> archivedTabs,
                            toSave |-> removeArchivedTab(archivedTabs, url, spaceId)]]
    /\ UNCHANGED <<archivedTabs, now, lastArchived, lastSaved>>
    /\ ArchiveFrame

\* saveArchivedTabs of the call of context c: its list replaces the stored one.
SaveArchivedTabs(c) ==
    /\ archiveCalls[c] # NoCall
    /\ archivedTabs' = archiveCalls[c].toSave
    /\ archiveCalls' = [archiveCalls EXCEPT ![c] = NoCall]
    /\ lastSaved' = [caller |-> c, op |-> archiveCalls[c].op, read |-> archiveCalls[c].read,
                     over |-> archivedTabs, saved |-> archiveCalls[c].toSave]
    /\ UNCHANGED <<now, archiveEvents, lastArchived>>
    /\ ArchiveFrame
    /\ HostTabsFrame

NextArchive ==
    \/ Tick
    \/ \E c \in Callers, url \in ArchiveUrls \cup {NoUrl}, name \in {NoName, 1},
          spaceId \in Groups \cup {NoSpace} : AddArchivedTab(c, url, name, spaceId)
    \/ \E c \in Callers, url \in ArchiveUrls \cup {NoUrl}, spaceId \in Groups \cup {NoSpace} :
          RemoveArchivedTab(c, url, spaceId)
    \/ \E c \in Callers, url \in ArchiveUrls, spaceId \in Groups :
          RestoreArchivedTab(c, url, spaceId)
    \/ \E c \in Callers : SaveArchivedTabs(c)

SpecArchive == InitArchive /\ [][NextArchive]_vars

\* ------------------------------------------------ reloading the active space
\* refreshActiveSpaceUI(): the rows of the active space are removed and
\* loadTabs renders the space again, the children of its folder in reverse
\* when the invertTabOrder setting is on.  shown lists the live pinned rows the
\* load made, bookmark by bookmark.
refreshActiveSpaceUI(st, active, invert) ==
    LET i == SpaceById(st.spaces, active)
        s == st.spaces[i]
        ids == s.spaceBookmarks \o s.temporaryTabs
        items == FolderBookmarks(st, s.name)
        cleared == [st EXCEPT !.rows = {r \in @ : ~Includes(ids, r.tabId)},
                              !.bookmarkOnly = @ \ SeqSet(FolderUrls(st, s.name))]
        r == processBookmarkNode([st |-> cleared, represented |-> {}, shown |-> <<>>],
                                 st.pinnedTabStates,
                                 IF invert THEN Reverse(items) ELSE items, 1)
    IN [st |-> [r.st EXCEPT
                  !.rows = @ \cup {Row("temporary", t) :
                                      t \in {q \in SeqSet(s.temporaryTabs) : IsOpen(st, q)}
                                            \ r.represented}],
        shown |-> r.shown]

\* The invertTabOrder setting changes and, 50 ms later, refreshActiveSpaceUI
\* runs; it returns at once without an active space or without its element.
RefreshActiveSpaceUI(invert) ==
    /\ events < MaxEvents
    /\ events' = events + 1
    /\ lastOp' = Other
    /\ SpaceById(spaces, activeSpaceId) # 0
    /\ activeSpaceId \in spaceElements
    /\ \E st0 \in {Stores} :
       \E r \in {refreshActiveSpaceUI(st0, activeSpaceId, invert)} :
          /\ Commit(r.st)
          /\ lastLoaded' = [space |-> activeSpaceId, invert |-> invert, shown |-> r.shown,
                            urls |-> [t \in Tabs |-> st0.tabUrl[t]],
                            states |-> st0.pinnedTabStates]
    /\ UNCHANGED <<activeSpaceId, isCreatingSpace, isOpeningBookmark, nextTabId, nextGroupId,
                   spaceElements, pinVars, moveVars, flagVars, retryVars, spaceVars,
                   pinnedVars, mergeVars, archiveVars, hostPinVars, dropVars, moreVars, switchVars>>

NextLoad ==
    \/ \E g \in Groups \cup {NoSpace}, u \in Urls : HandleTabCreated(g, u)
    \/ \E t \in Tabs : HandleTabRemove(t)
    \/ \E t \in Tabs, u \in Urls, title \in Titles : Navigate(t, u, title)
    \/ \E t \in Tabs, o \in Outcomes, invert \in BOOLEAN : DropToPinned(t, o, invert)
    \/ \E t \in Tabs, o \in Outcomes, invert \in BOOLEAN : DropToTemporary(t, o, invert)
    \/ \E invert \in BOOLEAN : RefreshActiveSpaceUI(invert)

SpecLoad == Init /\ [][NextLoad]_vars



\* ------------------------------- host move events, debounce and suppression
\* The three collections handleTabMove reads and writes; scheduled counts the
\* setTimeout calls of one handleTabMove.
MoveStores == [pendingTabMoves |-> pendingTabMoves, debounceTimers |-> debounceTimers,
               processingTabMoves |-> processingTabMoves,
               syncingToChrome |-> syncingToChrome, scheduled |-> 0]

\* handleTabMove without its guard on syncingToChrome.
handleTabMoveNoSyncGuard(m, opening, tabId, moveInfo) ==
    IF opening THEN m
    ELSE IF tabId \in m.processingTabMoves THEN m
    ELSE [m EXCEPT !.debounceTimers[tabId] =
                       (IF m.pendingTabMoves[tabId] # NoInfo THEN @ - 1 ELSE @) + 1,
                   !.pendingTabMoves[tabId] = moveInfo,
                   !.scheduled = @ + 1]

\* handleTabMove without clearTimeout on the pending entry's timer.
handleTabMoveKeepsTimer(m, opening, tabId, moveInfo) ==
    IF opening THEN m
    ELSE IF tabId \in m.syncingToChrome THEN m
    ELSE IF tabId \in m.processingTabMoves THEN m
    ELSE [m EXCEPT !.debounceTimers[tabId] = @ + 1,
                   !.pendingTabMoves[tabId] = moveInfo,
                   !.scheduled = @ + 1]

\* handleTabMove(tabId, moveInfo): ignored while a bookmark is being opened,
\* while the tab is marked as being synced to the host and while a move of the
\* tab is being processed; otherwise the timer of a pending entry is cleared, a
\* new timer is set and the entry holds the new moveInfo.
handleTabMove(m, opening, tabId, moveInfo) ==
    IF opening THEN m
    ELSE IF tabId \in m.syncingToChrome THEN m
    ELSE IF tabId \in m.processingTabMoves THEN m
    ELSE [m EXCEPT !.debounceTimers[tabId] =
                       (IF m.pendingTabMoves[tabId] # NoInfo THEN @ - 1 ELSE @) + 1,
                   !.pendingTabMoves[tabId] = moveInfo,
                   !.scheduled = @ + 1]

\* chrome.tabs.onMoved delivers (tabId, moveInfo) to handleTabMove.  moveInfo is
\* told apart by its toIndex, here the position inside the group.
Arrive(t, info) ==
    \E m \in {handleTabMove(MoveStores, isOpeningBookmark, t, info)} :
       /\ pendingTabMoves' = m.pendingTabMoves
       /\ debounceTimers' = m.debounceTimers
       /\ lastMove' = [tab |-> t, info |-> info, syncing |-> t \in syncingToChrome,
                       processing |-> t \in processingTabMoves,
                       scheduled |-> m.scheduled > 0]
       /\ burst' = [burst EXCEPT ![t] =
             IF m.scheduled = 0 THEN [@ EXCEPT !.arrived = info]
             ELSE IF debounceTimers[t] = 0
             THEN [arrived |-> info, accepted |-> info, count |-> 1, runs |-> 0]
             ELSE [@ EXCEPT !.arrived = info, !.accepted = info, !.count = @ + 1]]

MoveFrame == UNCHANGED <<activeSpaceId, isCreatingSpace, isOpeningBookmark, nextTabId,
                         nextGroupId, spaceElements, lastOp, pins, flagVars, retryVars,
                         spaceVars, restVars, switchVars>>
HostFrame == UNCHANGED <<spaces, storedSpaces, groupTabs, ungrouped, tabUrl, rows,
                         bookmarkOnly, folders, nextBookmarkId, pinnedTabStates>>

\* The user drags tab t to position p of its group in the native tab strip; the
\* host reports the move of the dragged tab.
UserDrag(t, p) ==
    /\ events < MaxMoveEvents
    /\ events' = events + 1
    /\ GroupOf(Stores, t) # NoSpace
    /\ \E g \in {GroupOf(Stores, t)} :
          /\ p \in 1..Len(groupTabs[g])
          /\ InsertAt(Without(groupTabs[g], t), p, t) # groupTabs[g]
          /\ groupTabs' = [groupTabs EXCEPT ![g] = InsertAt(Without(@, t), p, t)]
    /\ Arrive(t, p)
    /\ MoveFrame
    /\ UNCHANGED <<spaces, storedSpaces, ungrouped, tabUrl, rows, bookmarkOnly, folders, nextBookmarkId, pinnedTabStates,
                   processingTabMoves, syncingToChrome, syncTimers, passes, echoes,
                   movingToSpace, lastRun>>

\* The host reports a move the extension itself asked for.
EchoDelivered(e) ==
    /\ e \in echoes
    /\ echoes' = echoes \ {e}
    /\ Arrive(e.tab, e.toIndex)
    /\ MoveFrame /\ HostFrame
    /\ UNCHANGED <<events, processingTabMoves, syncingToChrome, syncTimers, passes,
                   movingToSpace, lastRun>>

\* A pass in progress: queued (its code has not run yet) or moving (its batched
\* chrome.tabs.move is with the host).
Pass(t, source, spaceId, phase, desired) ==
    [tab |-> t, source |-> source, space |-> spaceId, phase |-> phase, desired |-> desired,
     retryAttempt |-> 0, mark |-> 0]
RemoveAt(seq, i) == SubSeq(seq, 1, i - 1) \o SubSeq(seq, i + 1, Len(seq))

\* A time-to-live timer of markTabsSyncingToChrome: the ids its callback will
\* delete.  mark names the pass that is waiting for the move the ids were
\* marked for (0 once the host has answered), and failed tells that the host
\* refused that move.
SyncTimer(mark, ids) == [mark |-> mark, ids |-> ids, failed |-> FALSE]
MaxOf(S) == IF S = {} THEN 0 ELSE CHOOSE x \in S : \A y \in S : y <= x
NextMark == 1 + MaxOf({passes[i].mark : i \in DOMAIN passes})

\* markTabsSyncingToChrome(tabIds): the ids are added to the set, and a timer
\* of 600 ms is set that will delete them.
markTabsSyncingToChrome(marked, timers, tabIds, mark) ==
    [syncingToChrome |-> marked \cup SeqSet(uniqPreserveOrder(tabIds)),
     syncTimers |-> Append(timers, SyncTimer(mark, SeqSet(uniqPreserveOrder(tabIds))))]

\* unmarkTabsSyncingToChrome(tabIds), in the catch block of the batched move.
unmarkTabsSyncingToChrome(marked, tabIds) == marked \ SeqSet(uniqPreserveOrder(tabIds))

\* The timers once the host has answered the move of the marking.
MoveAnswered(timers, mark, outcome) ==
    [k \in DOMAIN timers |->
        IF timers[k].mark = mark
        THEN [timers[k] EXCEPT !.mark = 0, !.failed = (outcome # "ok")]
        ELSE timers[k]]

\* A debounce timer of tab t fires.  With an entry pending, the entry is deleted,
\* t is added to processingTabMoves and processTabMove is called and awaited:
\* processTabMove hands its work to the callback of chrome.windows.getCurrent and
\* returns, so that t is deleted from processingTabMoves before any of that
\* work has run.
DebounceFires(t) ==
    /\ debounceTimers[t] > 0
    /\ debounceTimers' = [debounceTimers EXCEPT ![t] = @ - 1]
    /\ IF pendingTabMoves[t] = NoInfo
       THEN UNCHANGED <<pendingTabMoves, processingTabMoves, passes, lastRun, burst>>
       ELSE /\ Len(passes) < MaxPasses
            /\ pendingTabMoves' = [pendingTabMoves EXCEPT ![t] = NoInfo]
            /\ processingTabMoves' = (processingTabMoves \cup {t}) \ {t}
            /\ passes' = Append(passes, Pass(t, "chrome", NoSpace, "queued", <<>>))
            /\ burst' = [burst EXCEPT ![t].runs = @ + 1]
            /\ lastRun' = [tab |-> t, info |-> pendingTabMoves[t],
                           arrived |-> burst[t].arrived, accepted |-> burst[t].accepted,
                           count |-> burst[t].count, runs |-> burst[t].runs + 1]
    /\ MoveFrame /\ HostFrame
    /\ UNCHANGED <<events, syncingToChrome, syncTimers, echoes, movingToSpace, lastMove>>

\* The code of a queued pass runs up to its batched move.  A pass of source
\* 'chrome' is the same-space branch of processTabMove's callback (no tab
\* changes groups here); a retry runs the pass again for the space and the
\* moved tab it had.  When the host order is not the desired one, the desired
\* ids are marked as being synced, their time-to-live timer is set and
\* chrome.tabs.move is called; otherwise the pass ends by saving.
PassStarts(i) ==
    /\ i \in DOMAIN passes
    /\ passes[i].phase = "queued"
    /\ Len(syncTimers) < MaxSyncTimers
    /\ ~MovedBetweenSpaces(Stores, passes[i].tab)
    /\ \E spaceId \in {IF passes[i].space # NoSpace THEN passes[i].space
                       ELSE effectiveSpaceId(Stores, passes[i].tab)} :
       \E r \in {reconcileSpaceTabOrdering(spaces, InGroup(Stores, spaceId), spaceId,
                                            passes[i].source, passes[i].tab, "ok")} :
          /\ spaces' = r.spaces
          /\ storedSpaces' = IF r.ran /\ ~r.issued THEN r.spaces ELSE storedSpaces
          /\ passes' = IF r.issued
                       THEN [passes EXCEPT ![i].phase = "moving", ![i].space = spaceId,
                                           ![i].desired = r.desired, ![i].mark = NextMark]
                       ELSE RemoveAt(passes, i)
          /\ \E m \in {markTabsSyncingToChrome(syncingToChrome, syncTimers, r.desired,
                                                 NextMark)} :
                /\ syncingToChrome' = IF r.issued THEN m.syncingToChrome ELSE syncingToChrome
                /\ syncTimers' = IF r.issued THEN m.syncTimers ELSE syncTimers
    /\ MoveFrame
    /\ UNCHANGED <<events, groupTabs, ungrouped, tabUrl, rows, bookmarkOnly, folders, nextBookmarkId, pinnedTabStates,
                   pendingTabMoves, debounceTimers, processingTabMoves, echoes,
                   movingToSpace, lastMove, lastRun, burst>>

\* The onMoved events of a batched move: one for every listed tab whose
\* position changed.
Echoes(old, new, ids) ==
    {[tab |-> id, toIndex |-> IndexOf(new, id)] :
        id \in {x \in SeqSet(ids) : IndexOf(new, x) # IndexOf(old, x)}}

\* The host answers the batched move of a pass.  "ok": the tabs are moved, the
\* pass saves and ends.  "busy" ('Tabs cannot be edited right now'): the ids are
\* unmarked, a retry is scheduled and the pass saves.  "error": the ids are
\* unmarked and the pass throws.
HostAnswers(i, outcome) ==
    /\ i \in DOMAIN passes
    /\ passes[i].phase = "moving"
    /\ \E g \in {passes[i].space}, desired \in {passes[i].desired} :
       \E new \in {IF outcome = "ok" THEN TabsMove(groupTabs[g], desired) ELSE groupTabs[g]} :
          /\ groupTabs' = [groupTabs EXCEPT ![g] = new]
          /\ echoes' = echoes \cup Echoes(groupTabs[g], new, desired)
          /\ syncingToChrome' = IF outcome = "ok" THEN syncingToChrome
                                ELSE unmarkTabsSyncingToChrome(syncingToChrome, desired)
          /\ syncTimers' = MoveAnswered(syncTimers, passes[i].mark, outcome)
    /\ storedSpaces' = IF outcome = "error" THEN storedSpaces ELSE spaces
    /\ passes' = IF outcome = "busy" /\ passes[i].retryAttempt < MaxRetries
                 THEN [passes EXCEPT ![i].phase = "queued", ![i].retryAttempt = @ + 1]
                 ELSE RemoveAt(passes, i)
    /\ MoveFrame
    /\ UNCHANGED <<events, spaces, ungrouped, tabUrl, rows, bookmarkOnly, folders, nextBookmarkId, pinnedTabStates, pendingTabMoves,
                   debounceTimers, processingTabMoves, movingToSpace,
                   lastMove, lastRun, burst>>

\* A time-to-live timer of markTabsSyncingToChrome fires and deletes its ids.
\* The timers have one delay, so they fire in the order they were set.
SyncTtlExpires ==
    /\ syncTimers # <<>>
    /\ syncTimers' = Tail(syncTimers)
    /\ syncingToChrome' = syncingToChrome \ Head(syncTimers).ids
    /\ MoveFrame /\ HostFrame
    /\ UNCHANGED <<events, pendingTabMoves, debounceTimers, processingTabMoves, passes,
                   echoes, movingToSpace, lastMove, lastRun, burst>>

\* The pin / unpin listener up to the pass: moveTabToSpace, which keeps the tab
\* in processingTabMoves until its last line, and moveTabToPinned /
\* moveTabToTemp on the stored copy, whose pass is left to run.
pinUntilPass(st, t, space_elements) ==
    LET copy == st.storedSpaces
        asTemp == FindSpace(copy, LAMBDA s : Includes(s.temporaryTabs, t))
        asBookmark == FindSpace(copy, LAMBDA s : Includes(s.spaceBookmarks, t))
        i == IF asTemp # 0 THEN asTemp ELSE asBookmark
    IN IF i = 0 THEN st
       ELSE With(moveTabToSpace(st, t, copy[i].id, asTemp # 0, space_elements), LAMBDA st1 :
            IF asTemp # 0 THEN PinBookmark(st1, FALSE, copy[i].id, copy[i].name, t)
            ELSE UnpinBookmark(st1, FALSE, copy[i].id, copy[i].name, t))

PinCommand(t) ==
    /\ events < MaxMoveEvents
    /\ events' = events + 1
    /\ IsOpen(Stores, t)
    /\ t \notin movingToSpace
    /\ Len(passes) < MaxPasses
    /\ \E i \in {FindSpace(storedSpaces, LAMBDA s : Includes(s.temporaryTabs, t)
                                                  \/ Includes(s.spaceBookmarks, t))} :
          /\ i # 0
          /\ passes' = Append(passes, Pass(t, "arcify", storedSpaces[i].id, "queued", <<>>))
    /\ \E st1 \in {pinUntilPass(Stores, t, spaceElements)} : Commit(st1)
    /\ processingTabMoves' = processingTabMoves \cup {t}
    /\ movingToSpace' = movingToSpace \cup {t}
    /\ MoveFrame
    /\ UNCHANGED <<pendingTabMoves, debounceTimers, syncingToChrome, syncTimers, echoes,
                   lastMove, lastRun, burst>>

\* The last line of moveTabToSpace: processingTabMoves.delete(tabId).
MoveTabToSpaceEnds(t) ==
    /\ t \in movingToSpace
    /\ movingToSpace' = movingToSpace \ {t}
    /\ processingTabMoves' = processingTabMoves \ {t}
    /\ MoveFrame /\ HostFrame
    /\ UNCHANGED <<events, pendingTabMoves, debounceTimers, syncingToChrome, syncTimers,
                   passes, echoes, lastMove, lastRun, burst>>

NextMove ==
    \/ \E t \in Tabs, p \in 1..MaxTabs : UserDrag(t, p)
    \/ \E e \in echoes : EchoDelivered(e)
    \/ \E t \in Tabs : DebounceFires(t)
    \/ \E i \in 1..MaxPasses : PassStarts(i)
    \/ \E i \in 1..MaxPasses, o \in Outcomes : HostAnswers(i, o)
    \/ SyncTtlExpires
    \/ \E t \in Tabs : PinCommand(t)
    \/ \E t \in Tabs : MoveTabToSpaceEnds(t)

SpecMove == Init /\ [][NextMove]_vars

\* ------------------------------------ space creation, await by await
\* createNewSpace and createSpaceFromInactive with the points at which other
\* handlers run between their lines, and the onCreated event of the tab that
\* createNewSpace asks the host for.
FlagFrame == UNCHANGED <<isOpeningBookmark, lastOp, pinVars, moveVars, retryVars, spaceVars,
                         restVars, switchVars>>
SeqGoes(p, phase) == seqs' = [seqs EXCEPT ![p].phase = phase]

\* chrome.tabs.onCreated for tab t, just created by the host outside every
\* group: handleTabCreated returns when one of the two flags is set, and
\* otherwise moves the tab into the active space as a temporary tab.
TabCreated(t, u, synthesized) ==
    \E st0 \in {[Stores EXCEPT !.tabUrl[t] = u, !.ungrouped = @ \cup {t}]} :
    \E st1 \in {IF isCreatingSpace \/ isOpeningBookmark
                    \/ SpaceById(spaces, activeSpaceId) = 0
                 THEN st0
                 ELSE moveTabToSpace(st0, t, activeSpaceId, FALSE, spaceElements)} :
       /\ Commit(st1)
       /\ nextTabId' = t + 1
       /\ lastCreated' = [tab |-> t, synthesized |-> synthesized,
                          flagged |-> isCreatingSpace \/ isOpeningBookmark,
                          moved |-> st1.spaces # st0.spaces]

\* The user opens a tab in the host.
UserOpensTab(u) ==
    /\ events < MaxFlagEvents
    /\ events' = events + 1
    /\ nextTabId <= MaxTabs
    /\ TabCreated(nextTabId, u, FALSE)
    /\ FlagFrame
    /\ UNCHANGED <<activeSpaceId, isCreatingSpace, nextGroupId, spaceElements, seqs>>

\* createNewSpace() up to its first await: the flag is set; with a name that is
\* empty or taken it returns, and otherwise ChromeHelper.createNewTab() is called.
NewSpaceBegin(p, name) ==
    /\ events < MaxFlagEvents
    /\ events' = events + 1
    /\ seqs[p].phase \in {"idle", "done"}
    /\ isCreatingSpace' = TRUE
    /\ seqs' = [seqs EXCEPT ![p] =
          IF \E i \in DOMAIN spaces : toLowerCase(spaces[i].name) = toLowerCase(name)
          THEN [NoSeq EXCEPT !.kind = "createNewSpace", !.phase = "done", !.name = name]
          ELSE [NoSeq EXCEPT !.kind = "createNewSpace", !.phase = "creating", !.name = name]]
    /\ FlagFrame
    /\ UNCHANGED <<spaces, storedSpaces, activeSpaceId, groupTabs, ungrouped, tabUrl, nextTabId,
                   nextGroupId, spaceElements, rows, bookmarkOnly, folders, nextBookmarkId, pinnedTabStates, lastCreated>>

\* The host creates the tab a sequence asked for and reports it.
SeqTabCreated(p, u) ==
    /\ seqs[p].phase = "creating"
    /\ nextTabId <= MaxTabs
    /\ TabCreated(nextTabId, u, TRUE)
    /\ seqs' = [seqs EXCEPT ![p].phase = "created", ![p].tab = nextTabId]
    /\ FlagFrame
    /\ UNCHANGED <<events, activeSpaceId, isCreatingSpace, nextGroupId, spaceElements>>

\* The rest of createNewSpace: the new group, the folder, the space with the
\* new tab as its one temporary tab, its element, setActiveSpace, saveSpaces,
\* and the flag is reset.
NewSpaceFinish(p) ==
    /\ seqs[p].kind = "createNewSpace"
    /\ seqs[p].phase = "created"
    /\ nextGroupId <= MaxGroups
    /\ \E t \in {seqs[p].tab}, g \in {nextGroupId}, name \in {seqs[p].name} :
       \E st0 \in {createNewTabGroup(Stores, t, g)} :
       \E st1 \in {getOrCreateSpaceFolder(st0, name)} :
       \E st2 \in {[st1 EXCEPT !.spaces = Append(@, Space(g, name, <<>>, <<t>>))]} :
       \E st3 \in {saveSpaces(loadTabs(st2, name, <<t>>))} :
          /\ Commit(st3)
          /\ nextGroupId' = g + 1
          /\ spaceElements' = spaceElements \cup {g}
          /\ activeSpaceId' = g
    /\ isCreatingSpace' = FALSE
    /\ SeqGoes(p, "done")
    /\ FlagFrame
    /\ UNCHANGED <<events, nextTabId, lastCreated>>

\* createSpaceFromInactive(spaceName, tabToMove) up to its first await.
FromInactiveBegin(p, name, t) ==
    /\ events < MaxFlagEvents
    /\ events' = events + 1
    /\ seqs[p].phase \in {"idle", "done"}
    /\ IsOpen(Stores, t)
    /\ HasFolder(Stores, name)
    /\ \A i \in DOMAIN spaces : spaces[i].name # name
    /\ isCreatingSpace' = TRUE
    /\ seqs' = [seqs EXCEPT ![p] = [NoSeq EXCEPT !.kind = "createSpaceFromInactive",
                                                 !.phase = "working", !.name = name, !.tab = t]]
    /\ FlagFrame
    /\ UNCHANGED <<spaces, storedSpaces, activeSpaceId, groupTabs, ungrouped, tabUrl, nextTabId,
                   nextGroupId, spaceElements, rows, bookmarkOnly, folders, nextBookmarkId, pinnedTabStates, lastCreated>>

\* The rest of createSpaceFromInactive, to its finally, which resets the flag.
\* Nothing but the flag changes when the tab was closed or the name taken
\* meanwhile (the try block throws or builds nothing the claims look at).
FromInactiveFinish(p) ==
    /\ seqs[p].kind = "createSpaceFromInactive"
    /\ seqs[p].phase = "working"
    /\ IF /\ IsOpen(Stores, seqs[p].tab)
          /\ nextGroupId <= MaxGroups
          /\ \A i \in DOMAIN spaces : spaces[i].name # seqs[p].name
       THEN \E g \in {nextGroupId} :
            \E st1 \in {createSpaceFromInactive(Stores, seqs[p].name, seqs[p].tab, g)} :
               /\ Commit(st1)
               /\ nextGroupId' = g + 1
               /\ spaceElements' = spaceElements \cup {g}
               /\ activeSpaceId' = g
       ELSE UNCHANGED <<spaces, storedSpaces, groupTabs, ungrouped, tabUrl, rows, bookmarkOnly,
                        folders, nextBookmarkId, pinnedTabStates, nextGroupId, spaceElements, activeSpaceId>>
    /\ isCreatingSpace' = FALSE
    /\ SeqGoes(p, "done")
    /\ FlagFrame
    /\ UNCHANGED <<events, nextTabId, lastCreated>>

NextFlag ==
    \/ \E u \in Urls : UserOpensTab(u)
    \/ \E p \in Procs, n \in Names : NewSpaceBegin(p, n)
    \/ \E p \in Procs, u \in Urls : SeqTabCreated(p, u)
    \/ \E p \in Procs : NewSpaceFinish(p)
    \/ \E p \in Procs, n \in Names, t \in Tabs : FromInactiveBegin(p, n, t)
    \/ \E p \in Procs : FromInactiveFinish(p)

SpecFlag == Init /\ [][NextFlag]_vars

\* ----------------------------------------------- retries of a refused move
\* The retry map and the timers behind it, with what one catch block did.
RetryStores == [reconcileRetryBySpace |-> reconcileRetryBySpace, retryTimers |-> retryTimers,
                scheduled |-> FALSE, threw |-> FALSE, saved |-> TRUE]

RetryTimer(spaceId, source, movedTabId, attempt, delayMs) ==
    [space |-> spaceId, source |-> source, movedTabId |-> movedTabId, attempt |-> attempt,
     delayMs |-> delayMs, stale |-> FALSE]

\* The timers without the one the entry of the space refers to, which is the
\* timer set last for the space.
ClearTimerOf(timers, spaceId) ==
    LET mine == {k \in DOMAIN timers : timers[k].space = spaceId}
    IN IF mine = {} THEN timers
       ELSE RemoveAt(timers, CHOOSE k \in mine : \A j \in mine : j <= k)

\* scheduleReconcileRetry without its clearTimeout.
scheduleReconcileRetryNoClear(rt, spaceId, source, movedTabId, attempt, delayMs) ==
    [rt EXCEPT !.retryTimers = Append(@, RetryTimer(spaceId, source, movedTabId, attempt, delayMs)),
               !.reconcileRetryBySpace[spaceId] =
                    [attempt |-> attempt, source |-> source, movedTabId |-> movedTabId],
               !.scheduled = TRUE]

\* scheduleReconcileRetry(spaceId, opts, attempt, delayMs, reason): the timer of
\* the space's entry, if there is one, is cleared; a new timer is set and the
\* entry replaced.
scheduleReconcileRetry(rt, spaceId, source, movedTabId, attempt, delayMs) ==
    [rt EXCEPT !.retryTimers =
                    Append(IF rt.reconcileRetryBySpace[spaceId] # NoRetry
                           THEN ClearTimerOf(@, spaceId) ELSE @,
                           RetryTimer(spaceId, source, movedTabId, attempt, delayMs)),
               !.reconcileRetryBySpace[spaceId] =
                    [attempt |-> attempt, source |-> source, movedTabId |-> movedTabId],
               !.scheduled = TRUE]

\* The delay without its cap.
RetryDelayUncapped(nextAttempt) == 200 + nextAttempt * 100

\* delayMs = Math.min(1200, 200 + nextAttempt * 100)
RetryDelay(nextAttempt) ==
    IF 200 + nextAttempt * 100 < 1200 THEN 200 + nextAttempt * 100 ELSE 1200

\* The catch block with the contention error handled like any other error.
onMoveRejectedAlwaysThrows(rt, spaceId, source, movedTabId, retryAttempt, outcome) ==
    [rt EXCEPT !.threw = TRUE, !.saved = FALSE]

\* The catch block with every error handled like the contention error.
onMoveRejectedNeverThrows(rt, spaceId, source, movedTabId, retryAttempt, outcome) ==
    IF retryAttempt + 1 <= MaxRetryAttempts
    THEN scheduleReconcileRetry(rt, spaceId, source, movedTabId, retryAttempt + 1,
                                RetryDelay(retryAttempt + 1))
    ELSE rt

\* The catch block of the batched move, after the ids were unmarked: on the
\* contention error a retry is scheduled while the attempt ceiling allows and
\* the pass goes on to saveSpaces(); any other error is thrown again.
onMoveRejected(rt, spaceId, source, movedTabId, retryAttempt, outcome) ==
    IF outcome = "busy"
    THEN IF retryAttempt + 1 <= MaxRetryAttempts
         THEN scheduleReconcileRetry(rt, spaceId, source, movedTabId, retryAttempt + 1,
                                     RetryDelay(retryAttempt + 1))
         ELSE rt
    ELSE [rt EXCEPT !.threw = TRUE, !.saved = FALSE]

RetryFrame == UNCHANGED <<activeSpaceId, isCreatingSpace, isOpeningBookmark, nextTabId,
                          nextGroupId, spaceElements, lastOp, pins, flagVars, spaceVars, restVars, switchVars,
                          pendingTabMoves, debounceTimers, processingTabMoves, echoes,
                          movingToSpace, lastMove, lastRun, burst>>

\* reconcileSpaceTabOrdering(spaceId, {source, movedTabId, _retryAttempt}) on
\* the stores st, up to its batched move: the array is updated; with the host
\* order as desired the pass saves and ends, otherwise the desired ids are
\* marked and chrome.tabs.move is with the host.
StartPass(st, t, source, spaceId, attempt) ==
    /\ Len(passes) < MaxPasses
    /\ Len(syncTimers) < MaxSyncTimers
    /\ \E r \in {reconcileSpaceTabOrdering(st.spaces, InGroup(st, spaceId), spaceId,
                                            source, t, "ok")} :
          /\ Commit([st EXCEPT !.spaces = r.spaces,
                               !.storedSpaces = IF r.ran /\ ~r.issued THEN r.spaces ELSE @])
          /\ passes' = IF r.issued
                       THEN Append(passes, [Pass(t, source, spaceId, "moving", r.desired)
                                               EXCEPT !.retryAttempt = attempt,
                                                      !.mark = NextMark])
                       ELSE passes
          /\ \E m \in {markTabsSyncingToChrome(syncingToChrome, syncTimers, r.desired,
                                                 NextMark)} :
                /\ syncingToChrome' = IF r.issued THEN m.syncingToChrome ELSE syncingToChrome
                /\ syncTimers' = IF r.issued THEN m.syncTimers ELSE syncTimers

\* A reconciliation of the space is requested by a caller other than a retry
\* timer: the retry timers pending for the space are older than the request.
Requested(timers, spaceId) ==
    [k \in DOMAIN timers |->
        IF timers[k].space = spaceId THEN [timers[k] EXCEPT !.stale = TRUE] ELSE timers[k]]

\* A drag in the native tab strip whose onMoved event passed the guards of
\* handleTabMove and whose debounce delay is over: processTabMove requests the
\* pass of source 'chrome' for the space of the tab.
RequestFromDrag(t, p) ==
    /\ events < MaxRetryEvents
    /\ events' = events + 1
    /\ GroupOf(Stores, t) # NoSpace
    /\ ~isOpeningBookmark /\ t \notin syncingToChrome /\ t \notin processingTabMoves
    /\ \E g \in {GroupOf(Stores, t)} :
          /\ p \in 1..Len(groupTabs[g])
          /\ InsertAt(Without(groupTabs[g], t), p, t) # groupTabs[g]
          /\ \E st0 \in {[Stores EXCEPT !.groupTabs[g] = InsertAt(Without(@, t), p, t)]} :
                /\ ~MovedBetweenSpaces(st0, t)
                /\ effectiveSpaceId(st0, t) # NoSpace
                /\ StartPass(st0, t, "chrome", effectiveSpaceId(st0, t), 0)
                /\ retryTimers' = Requested(retryTimers, effectiveSpaceId(st0, t))
    /\ RetryFrame
    /\ UNCHANGED <<reconcileRetryBySpace, lastAnswer, lastFired>>

\* A pin / unpin command: the listener up to the pass, and the pass of source
\* 'arcify' that moveTabToPinned / moveTabToTemp requests.
RequestFromPin(t) ==
    /\ events < MaxRetryEvents
    /\ events' = events + 1
    /\ IsOpen(Stores, t)
    /\ \E i \in {FindSpace(storedSpaces, LAMBDA s : Includes(s.temporaryTabs, t)
                                                  \/ Includes(s.spaceBookmarks, t))} :
          /\ i # 0
          /\ \E st1 \in {pinUntilPass(Stores, t, spaceElements)} :
                StartPass(st1, t, "arcify", storedSpaces[i].id, 0)
          /\ retryTimers' = Requested(retryTimers, storedSpaces[i].id)
    /\ RetryFrame
    /\ UNCHANGED <<reconcileRetryBySpace, lastAnswer, lastFired>>

\* The host answers the batched move of a pass: the rest of
\* reconcileSpaceTabOrdering, with its catch block and its saveSpaces().
HostAnswersRetry(i, outcome) ==
    /\ i \in DOMAIN passes
    /\ passes[i].phase = "moving"
    /\ \E g \in {passes[i].space}, desired \in {passes[i].desired} :
       \E rt \in {IF outcome = "ok" THEN RetryStores
                  ELSE onMoveRejected(RetryStores, g, passes[i].source, passes[i].tab,
                                      passes[i].retryAttempt, outcome)} :
          /\ groupTabs' = [groupTabs EXCEPT ![g] =
                              IF outcome = "ok" THEN TabsMove(@, desired) ELSE @]
          /\ syncingToChrome' = IF outcome = "ok" THEN syncingToChrome
                                ELSE unmarkTabsSyncingToChrome(syncingToChrome, desired)
          /\ syncTimers' = MoveAnswered(syncTimers, passes[i].mark, outcome)
          /\ storedSpaces' = IF rt.saved THEN spaces ELSE storedSpaces
          /\ reconcileRetryBySpace' = rt.reconcileRetryBySpace
          /\ retryTimers' = rt.retryTimers
          /\ lastAnswer' = [space |-> g, outcome |-> outcome, attempt |-> passes[i].retryAttempt,
                            scheduled |-> rt.scheduled, threw |-> rt.threw,
                            saved |-> rt.saved,
                            replaced |-> rt.scheduled /\ reconcileRetryBySpace[g] # NoRetry,
                            persisted |-> (IF rt.saved THEN spaces ELSE storedSpaces) = spaces,
                            pending |-> Len(SelectSeq(rt.retryTimers, LAMBDA x : x.space = g))]
    /\ passes' = RemoveAt(passes, i)
    /\ RetryFrame
    /\ UNCHANGED <<events, spaces, ungrouped, tabUrl, rows, bookmarkOnly, folders, nextBookmarkId, pinnedTabStates, lastFired>>

\* A retry timer fires: the entry of its space is deleted and the pass is
\* called again with the options and the attempt number the timer was set with.
RetryFires(k) ==
    /\ k \in DOMAIN retryTimers
    /\ retryTimers' = RemoveAt(retryTimers, k)
    /\ reconcileRetryBySpace' = [reconcileRetryBySpace EXCEPT ![retryTimers[k].space] = NoRetry]
    /\ StartPass(Stores, retryTimers[k].movedTabId, retryTimers[k].source,
                 retryTimers[k].space, retryTimers[k].attempt)
    /\ lastFired' = [space |-> retryTimers[k].space, attempt |-> retryTimers[k].attempt,
                     stale |-> retryTimers[k].stale]
    /\ RetryFrame
    /\ UNCHANGED <<events, lastAnswer>>

NextRetry ==
    \/ \E t \in Tabs, p \in 1..MaxTabs : RequestFromDrag(t, p)
    \/ \E t \in Tabs : RequestFromPin(t)
    \/ \E i \in 1..MaxPasses, o \in Outcomes : HostAnswersRetry(i, o)
    \/ \E k \in 1..MaxPasses : RetryFires(k)
    \/ SyncTtlExpires

SpecRetry == Init /\ [][NextRetry]_vars

\* --------------------------------------------------- the lifecycle of spaces
\* chrome.bookmarks.update(oldFolder.id, {title}) on the first folder titled
\* old.  The folder keeps its index under the root, which is not kept here: pos
\* is its place among the folders that have the new title.
updateFolderTitle(st, old, title, pos) ==
    [st EXCEPT !.folders = [n \in Names |->
        IF n = old THEN Tail(st.folders[old])
        ELSE IF n = title THEN InsertAt(st.folders[title], pos, Head(st.folders[old]))
        ELSE st.folders[n]]]

\* The change listener of the name input that createSpaceElement(space) sets
\* up, for the record at index i: the folder found or made under the old name
\* gets the new title, the record the new name, and the array is saved.  The
\* typed name is compared with no other name.
renameSpace(st, i, title, pos) ==
    With(getOrCreateSpaceFolder(st, st.spaces[i].name), LAMBDA st0 :
    saveSpaces([updateFolderTitle(st0, st.spaces[i].name, title, pos)
                   EXCEPT !.spaces[i].name = title]))

\* The user types a new name into the name input of a space element whose
\* record is still the object in the array (setActiveSpace has not replaced it).
RenameSpace(spaceId, title, pos) ==
    /\ Handled
    /\ spaceId \in spaceElements
    /\ SpaceById(spaces, spaceId) # 0
    /\ \E i \in {SpaceById(spaces, spaceId)} :
          /\ spaces[i].name # title
          /\ pos \in 1..(Len(folders[title]) + 1)
          /\ Commit(renameSpace(Stores, i, title, pos))
    /\ lastOp' = Other
    /\ UNCHANGED <<activeSpaceId, isCreatingSpace, isOpeningBookmark, nextTabId, nextGroupId,
                   spaceElements>>

\* chrome.tabs.remove(tabId) for each of the ids.
TabsRemoveAll(st, ids) ==
    [st EXCEPT !.ungrouped = @ \ SeqSet(ids),
               !.groupTabs = [h \in Groups |->
                                 SelectSeq(st.groupTabs[h], LAMBDA t : ~Includes(ids, t))],
               !.tabUrl = [t \in Tabs |-> IF Includes(ids, t) THEN NoUrl ELSE st.tabUrl[t]]]

\* deleteSpace with the bookmark folder left alone.
removeSpaceFolderKept(st, name) == st

\* deleteSpace: the first folder under the root with the title of the space is
\* removed with its contents; spaceFolder.id throws when there is none.
removeSpaceFolder(st, name) ==
    IF HasFolder(st, name) THEN [st EXCEPT !.folders[name] = Tail(@)]
    ELSE [st EXCEPT !.threw = TRUE, !.failed = TRUE]

\* deleteSpace(spaceId), from the delete button of a space element: the tabs of
\* both arrays are asked to close, the record leaves the array and the element
\* the DOM; if the space was the active one, the first space left is activated;
\* the folder is removed and the array saved.
DeleteSpace(spaceId, u) ==
    /\ HandledSpace
    /\ spaceId \in spaceElements
    /\ SpaceById(spaces, spaceId) # 0
    /\ \E s \in {spaces[SpaceById(spaces, spaceId)]} :
       \E ids \in {s.spaceBookmarks \o s.temporaryTabs} :
       \E st1 \in {[TabsRemoveAll(Stores, ids) EXCEPT
                       !.spaces = SelectSeq(@, LAMBDA x : x.id # spaceId),
                       !.rows = {r \in @ : ~Includes(ids, r.tabId)},
                       !.bookmarkOnly = @ \ SeqSet(FolderUrls(Stores, s.name))]} :
       \E next \in {IF activeSpaceId = spaceId /\ st1.spaces # <<>>
                    THEN st1.spaces[1].id ELSE NoSpace} :
       \E made \in {next # NoSpace /\ ~GroupExists(st1, next)} :
          /\ made => (nextTabId <= MaxTabs /\ nextGroupId <= MaxGroups)
          /\ \E st2 \in {IF next = NoSpace THEN st1
                         ELSE setActiveSpace(st1, next, nextTabId, nextGroupId, u)} :
             \E st3 \in {removeSpaceFolder(st2, s.name)} :
             \E st4 \in {IF st3.threw THEN st3 ELSE saveSpaces(st3)} :
                /\ Commit(st4)
                /\ activeSpaceId' = IF next # NoSpace THEN next ELSE activeSpaceId
                /\ nextTabId' = IF made THEN nextTabId + 1 ELSE nextTabId
                /\ nextGroupId' = IF made THEN nextGroupId + 1 ELSE nextGroupId
                /\ isCreatingSpace' = IF made THEN FALSE ELSE isCreatingSpace
                /\ lastActivated' =
                      IF next = NoSpace THEN lastActivated
                      ELSE Activation(st1, st2, next, IF made THEN nextGroupId ELSE next, next)
                /\ lastDeleted' =
                      [space |-> spaceId, asked |-> SeqSet(ids),
                       open |-> {t \in SeqSet(ids) : IsOpen(st4, t)},
                       folderRemoved |-> /\ HasFolder(st2, s.name)
                                         /\ st4.folders[s.name] = Tail(st2.folders[s.name]),
                       inMemory |-> SpaceById(st4.spaces, spaceId) # 0,
                       persisted |-> SpaceById(st4.storedSpaces, spaceId) # 0,
                       threw |-> st4.threw]
    /\ spaceElements' = spaceElements \ {spaceId}
    /\ lastOp' = Other
    /\ UNCHANGED <<isOpeningBookmark, lastClosed>>

NextSpaces ==
    \/ \E g \in Groups \cup {NoSpace}, u \in Urls : HandleTabCreated(g, u)
    \/ \E t \in Tabs : HandleTabRemove(t)
    \/ \E n \in Names \cup {NoName}, u \in Urls : CreateNewSpace(n, u)
    \/ \E n \in Names, t \in Tabs : CreateSpaceFromInactive(n, t)
    \/ \E g \in Groups, u \in Urls : SetActiveSpace(g, u)
    \/ \E g \in Groups, n \in Names, pos \in 1..(MaxNames + 1) : RenameSpace(g, n, pos)
    \/ \E g \in Groups, u \in Urls : DeleteSpace(g, u)

SpecSpaces == Init /\ [][NextSpaces]_vars

\* ------------------------------------- pinning in the host's own tab strip
\* handleTabUpdate(tabId, {pinned: true}, tab) once an element with the tab's id
\* is in the document: the bookmark of the tab's URL leaves the folder of the
\* space holding the tab if the tab was one of its bookmarks, the tab leaves
\* every space and its Pinned Tab State is removed, the array is saved and
\* the element removed.
handleTabPinned(st, t) ==
    LET w == SpaceWithTab(st.spaces, t)
        st1 == IF w # 0 /\ Includes(st.spaces[w].spaceBookmarks, t)
                        /\ HasFolder(st, st.spaces[w].name)
               THEN removeBookmarkByUrl(st, st.spaces[w].name, st.tabUrl[t])
               ELSE st
    IN RemoveFirstRow(
          saveSpaces(removePinnedTabState(
              [st1 EXCEPT !.spaces = [i \in DOMAIN @ |-> RemoveFromSpace(@[i], t)]], t)), t)

\* The user pins tab t in the host's tab strip: the tab leaves its group, and
\* chrome.tabs.onUpdated runs handleTabUpdate, whose pinned branch needs an
\* element with the tab's id; updatePinnedFavicons then gives every pinned tab
\* a favicon element.
TabPinned(t) ==
    /\ events < MaxEvents
    /\ events' = events + 1
    /\ lastOp' = Other
    /\ IsOpen(Stores, t)
    /\ t \notin chromePinned
    /\ chromePinned' = chromePinned \cup {t}
    /\ \E st0 \in {[Stores EXCEPT !.ungrouped = @ \cup {t},
                                  !.groupTabs = [g \in Groups |-> Without(@[g], t)]]} :
          IF ~isOpeningBookmark /\ (RowsOf(st0, t) # {} \/ t \in pinnedFavicons)
          THEN /\ Commit(handleTabPinned(st0, t))
               /\ pinnedFavicons' = chromePinned'
          ELSE /\ Commit(st0)
               /\ UNCHANGED pinnedFavicons
    /\ UNCHANGED <<activeSpaceId, isCreatingSpace, isOpeningBookmark, nextTabId, nextGroupId,
                   spaceElements, pinVars, moveVars, flagVars, retryVars, spaceVars,
                   pinnedVars, mergeVars, archiveVars, loadVars, dropVars, moreVars, switchVars>>

\* The user unpins tab t: handleTabUpdate(tabId, {pinned: false}, tab) calls
\* moveTabToSpace(tabId, activeSpaceId, false) when an element with the tab's
\* id is in the document (its favicon element is one), and updatePinnedFavicons
\* removes the favicon.  A call of moveTabToSpace that ends before its last
\* line leaves the tab in processingTabMoves.
TabUnpinned(t) ==
    /\ events < MaxEvents
    /\ events' = events + 1
    /\ lastOp' = Other
    /\ IsOpen(Stores, t)
    /\ t \in chromePinned
    /\ chromePinned' = chromePinned \ {t}
    /\ IF ~isOpeningBookmark /\ (RowsOf(Stores, t) # {} \/ t \in pinnedFavicons)
       THEN \E st1 \in {moveTabToSpace(Stores, t, activeSpaceId, FALSE, spaceElements)} :
               /\ Commit(st1)
               /\ processingTabMoves' = processingTabMoves \cup st1.held
               /\ pinnedFavicons' = pinnedFavicons \cap chromePinned'
       ELSE UNCHANGED <<spaces, storedSpaces, groupTabs, ungrouped, tabUrl, rows, bookmarkOnly,
                        folders, nextBookmarkId, pinnedTabStates, processingTabMoves,
                        pinnedFavicons>>
    /\ UNCHANGED <<activeSpaceId, isCreatingSpace, isOpeningBookmark, nextTabId, nextGroupId,
                   spaceElements, pinVars, pendingTabMoves, debounceTimers, syncingToChrome,
                   syncTimers, passes, echoes, movingToSpace, lastMove, lastRun, burst,
                   flagVars, retryVars, spaceVars, pinnedVars, mergeVars, archiveVars,
                   loadVars, dropVars, moreVars, switchVars>>

NextHostPin ==
    \/ \E g \in Groups \cup {NoSpace}, u \in Urls : HandleTabCreated(g, u)
    \/ \E n \in Names, u \in Urls : CreateNewSpace(n, u)
    \/ \E g \in Groups, u \in Urls : DeleteSpace(g, u)
    \/ \E t \in Tabs : TabPinned(t)
    \/ \E t \in Tabs : TabUnpinned(t)

SpecHostPin == Init /\ [][NextHostPin]_vars


\* ------------------------------------------------------------------ claims
Tracked(sp, t) ==
    {<<i, "spaceBookmarks">> : i \in {j \in DOMAIN sp : Includes(sp[j].spaceBookmarks, t)}}
    \cup {<<i, "temporaryTabs">> : i \in {j \in DOMAIN sp : Includes(sp[j].temporaryTabs, t)}}

\* C1: at every point of every execution no tab id is in both spaceBookmarks
\* and temporaryTabs of the same space.
C1_NoTabInBothArrays ==
    \A i \in DOMAIN spaces :
        SeqSet(spaces[i].spaceBookmarks) \cap SeqSet(spaces[i].temporaryTabs) = {}

\* The pass lastOp names, called once more on the state it left, the host
\* accepting whatever the call asks of it.
SecondPass ==
    reconcileSpaceTabOrdering(spaces, InGroup(Stores, lastOp.pass.space), lastOp.pass.space,
                              lastOp.pass.source, lastOp.tab, "ok")

\* C2: when a pass has completed (no move was needed, or its move succeeded) and
\* is called again with the array and the host order unchanged, the second call
\* issues no chrome.tabs.move.
C2_SecondPassIssuesNoMove == lastOp.pass.settled => ~SecondPass.issued

\* The ids of the sequence that are tabs of the group, in the sequence's order.
InGroupOrder(seq, order) == SelectSeq(seq, LAMBDA id : Includes(order, id))

\* C3: after a pass that needed no move or whose move succeeded, the host order
\* of the group is the bookmarks of the space that are in the group, in array
\* order, followed by its temporary tabs that are in the group, in array order.
C3_HostOrderIsModelOrder ==
    lastOp.pass.settled =>
        LET s == spaces[SpaceById(spaces, lastOp.pass.space)]
            order == InGroup(Stores, lastOp.pass.space)
        IN order = InGroupOrder(s.spaceBookmarks, order) \o InGroupOrder(s.temporaryTabs, order)

\* In the host order every tab of the bookmarks precedes every temporary tab.
BookmarksFirst(s, order) ==
    \A a, b \in DOMAIN order :
        (IsTemporary(s, order[a]) /\ Includes(s.spaceBookmarks, order[b])) => a > b

MovedIsLastBookmark(s, t) ==
    s.spaceBookmarks # <<>> /\ s.spaceBookmarks[Len(s.spaceBookmarks)] = t

\* A reorder in the native tab strip has just left a bookmarked tab after a
\* temporary tab, and the pass the move triggered is over.
AfterCrossingMove == lastOp.op = "processTabMove" /\ lastOp.crossed

\* C4 as stated: after the pass triggered by such a move the moved tab is the
\* last bookmark of its space and, in the host order of the group, every
\* bookmarked tab precedes every temporary tab.
C4_BoundaryRestored ==
    AfterCrossingMove =>
        LET g == GroupOf(Stores, lastOp.tab)
            s == spaces[SpaceById(spaces, g)]
        IN MovedIsLastBookmark(s, lastOp.tab) /\ BookmarksFirst(s, InGroup(Stores, g))

\* C4, amended: the moved tab is the last bookmark of its space whatever the
\* host answers; the host order has the bookmarks first when the batched move
\* of the pass succeeded.
C4_BoundaryRestoredWhenMoveSucceeds ==
    AfterCrossingMove =>
        LET g == GroupOf(Stores, lastOp.tab)
            s == spaces[SpaceById(spaces, g)]
        IN /\ MovedIsLastBookmark(s, lastOp.tab)
           /\ lastOp.pass.settled => BookmarksFirst(s, InGroup(Stores, g))

\* A crossing move of one of two bookmarked tabs of the group, set right by a
\* pass whose move the host accepted.
C4_Witness ==
    /\ AfterCrossingMove
    /\ lastOp.pass.settled
    /\ LET g == GroupOf(Stores, lastOp.tab)
           s == spaces[SpaceById(spaces, g)]
       IN /\ Len(InGroupOrder(s.spaceBookmarks, InGroup(Stores, g))) >= 2
          /\ Len(InGroupOrder(s.temporaryTabs, InGroup(Stores, g))) >= 1

\* C6: after a membership transition - moveTabToSpace, the cross-space branch
\* of processTabMove, createSpaceFromInactive - the moved tab id is in exactly
\* one array of exactly one space.
MembershipTransitions == {"moveTabToSpace", "processTabMoveBetweenSpaces", "createSpaceFromInactive"}
C6_MovedTabInExactlyOneArray ==
    lastOp.op \in MembershipTransitions => Cardinality(Tracked(spaces, lastOp.tab)) = 1

\* C5: once the host has removed a tab and handleTabRemove has finished for it,
\* the tab is in neither array of any space.
C5_RemovedTabUntracked ==
    \A t \in Tabs : (t < nextTabId /\ ~IsOpen(Stores, t)) => Tracked(spaces, t) = {}

Count(seq, x) == Len(SelectSeq(seq, LAMBDA y : y = x))

\* C7: when two pins of the same URL into the same space are both over, the
\* second started after the first was over or while it was at one of its
\* awaits, exactly one child of the space's folder is a bookmark of that URL.
C7_OneBookmarkAfterTwoPins ==
    \A p, q \in Procs :
        (/\ p # q
         /\ pins[p].phase = "done" /\ pins[p].kind = "pin"
         /\ pins[q].phase = "done" /\ pins[q].kind = "pin"
         /\ pins[p].url = pins[q].url /\ pins[p].name = pins[q].name)
        => Count(FolderUrls(Stores, pins[p].name), pins[p].url) = 1

\* C8: a host move event for a tab that is in syncingToChrome when the event
\* arrives schedules no debounced move (no timer is set, no entry is stored) and
\* so starts no pass.
C8_SuppressedEventSchedulesNothing == lastMove.syncing => ~lastMove.scheduled

\* An echo of the extension's own move arrived for a tab that was marked as
\* being synced and was in no processing set, and was dropped.
C8_Witness ==
    /\ lastMove.tab # NoTab
    /\ lastMove.syncing /\ ~lastMove.processing
    /\ ~lastMove.scheduled

AtMostOneTimer == \A t \in Tabs : debounceTimers[t] <= 1

C10_MovePassesHoldTheTab ==
    /\ \A i \in DOMAIN passes :
          passes[i].source = "chrome" => passes[i].tab \in processingTabMoves
    /\ \A i, j \in DOMAIN passes :
          (i # j /\ passes[i].source = "chrome" /\ passes[j].source = "chrome")
          => passes[i].tab # passes[j].tab

\* C11: a tab-created event for a tab that a creation sequence asked the host
\* for is handled with isCreatingSpace or isOpeningBookmark set, and
\* handleTabCreated does not move the tab into the active space.
C11_SynthesizedTabNotAdopted ==
    lastCreated.synthesized => (lastCreated.flagged /\ ~lastCreated.moved)

RetryTimersOf(g) == SelectSeq(retryTimers, LAMBDA x : x.space = g)

\* C12: at any time at most one retry timer is pending per space id.
C12_OneRetryTimerPerSpace == \A g \in Groups : Len(RetryTimersOf(g)) <= 1

\* A retry was scheduled for a space that had one pending, and one is pending.
C12_Witness ==
    /\ lastAnswer.replaced
    /\ Len(RetryTimersOf(lastAnswer.space)) = 1

\* C13: a retry timer of a space never fires after a reconciliation of the
\* space was requested while the timer was pending.
C13_OldRetryNeverFires == ~lastFired.stale

C15_ContentionStillPersists ==
    lastAnswer.outcome = "busy" => (lastAnswer.saved /\ lastAnswer.persisted)

\* The move was refused with the contention error with a retry scheduled.
C15_Witness ==
    /\ lastAnswer.outcome = "busy"
    /\ lastAnswer.scheduled
    /\ storedSpaces = spaces

\* C16: when the batched move fails with another error, the pass throws it
\* again and schedules no retry.
C16_OtherErrorRethrown ==
    lastAnswer.outcome = "error" => (lastAnswer.threw /\ ~lastAnswer.scheduled)

\* The move failed with another error while a retry attempt was running.
C16_Witness ==
    /\ lastAnswer.outcome = "error"
    /\ lastAnswer.attempt >= 1
    /\ lastAnswer.threw

\* C17: no two records of the array have names that are equal when case is
\* ignored.
C17_SpaceNamesUnique ==
    \A i, j \in DOMAIN spaces :
        i # j => toLowerCase(spaces[i].name) # toLowerCase(spaces[j].name)

\* C18: a call of setActiveSpace that found the group of the space gone leaves
\* the record with the id of the new group and otherwise as it was, and leaves
\* the old id neither in a record nor in activeSpaceId.
C18_RecreationReplacesOldId ==
    lastActivated.recreated =>
        /\ lastActivated.kept
        /\ lastActivated.new \in lastActivated.ids
        /\ lastActivated.old \notin lastActivated.ids
        /\ lastActivated.active # lastActivated.old

C20_ClosedBookmarkBecomesPlaceholder ==
    (lastClosed.bookmarked /\ lastClosed.closed) =>
        (lastClosed.placeholder /\ lastClosed.kept)

\* C21: when a tab showing URL u has been pinned as the first bookmark of a
\* space, the bookmarks of the space are exactly that tab, the tab is not among
\* its temporary tabs, the folder of the space holds a bookmark with URL u, and
\* the Pinned Tab State of the tab holds u and the id of that bookmark.  The
\* title of the bookmark is compared with the tab's only when the pin created
\* the bookmark.
C21_PinRecordsBookmarkAndState ==
    (lastPinned.kind = "pin" /\ lastPinned.first) =>
        /\ lastPinned.bookmarks = <<lastPinned.tab>>
        /\ ~lastPinned.temporary
        /\ lastPinned.bookmark.url = lastPinned.url
        /\ (lastPinned.fresh => lastPinned.bookmark.title = lastPinned.title)
        /\ lastPinned.state = PinnedState(lastPinned.url, lastPinned.bookmark.id)

\* C22: when a tab whose Pinned Tab State held a pinned URL has been unpinned,
\* no bookmark with the pinned URL is left in the folder of the space and the
\* tab has no Pinned Tab State.
C22_UnpinRemovesPinnedUrlBookmark ==
    (lastPinned.kind = "unpin" /\ lastPinned.pinnedUrl # NoUrl) =>
        /\ ~lastPinned.kept
        /\ ~lastPinned.state.stored

\* C23: a run of mergeDuplicateSpaceFolders on a tree on which an earlier run
\* has completed issues no move, remove or create call and leaves the tree as
\* it is (the host having refused no call of either run).
C23_MergeIsIdempotent ==
    (lastMerge.runs >= 2 /\ ~lastMerge.failed) => (lastMerge.calls = 0 /\ ~lastMerge.changed)

\* The first run merged three folders of one title, of which the last held a
\* subfolder the oldest held too, and a second run has followed.
C23_Witness ==
    /\ lastMerge.runs >= 2
    /\ ~lastMerge.failed
    /\ lastMerge.moved >= 3
    /\ Len(lastMerge.before) = 3
    /\ Len(tree) = 1
    /\ \E j \in DOMAIN lastMerge.before[3].children :
          lastMerge.before[3].children[j].url = NoUrl

\* The folders of a title among the folders under the root.
FoldersTitled(rootFolders, title) == SelectSeq(rootFolders, LAMBDA f : f.title = title)

C25_ArchiveCappedOldestDropped ==
    /\ Len(archivedTabs) <= MAX_ARCHIVED_TABS
    /\ \A c \in Callers : Len(archiveCalls[c].toSave) <= MAX_ARCHIVED_TABS
    /\ (Len(lastArchived.pushed) > MAX_ARCHIVED_TABS) = (lastArchived.dropped # <<>>)
    /\ lastArchived.dropped # <<>> =>
          /\ Len(lastArchived.dropped) = 1
          /\ Len(lastArchived.toSave) = MAX_ARCHIVED_TABS
          /\ \A i \in DOMAIN lastArchived.toSave :
                lastArchived.dropped[1].archivedAt <= lastArchived.toSave[i].archivedAt

\* An insertion into a full archive dropped a record that was archived
\* earlier, and its list has been saved.
C25_Witness ==
    /\ lastArchived.dropped # <<>>
    /\ lastArchived.dropped[1].url # lastArchived.url
    /\ Len(lastArchived.read) = MAX_ARCHIVED_TABS
    /\ archivedTabs = lastArchived.toSave
    /\ lastSaved.op = "add"

\* C26: no two records of the stored archive have the same URL, whatever the
\* order in which the reads and writes of the calls of the two contexts land.
C26_NoTwoRecordsShareUrl ==
    \A i, j \in DOMAIN archivedTabs :
        archivedTabs[i].url = archivedTabs[j].url => i = j

\* The write of an addArchivedTab call landed on an archive that the other
\* context had changed since the call read it.
C26_Witness ==
    /\ lastSaved.op = "add"
    /\ lastSaved.over # lastSaved.read
    /\ archivedTabs = lastSaved.saved
    /\ Len(archivedTabs) >= 2

\* C27: in one load of a space no open tab is made the live row of two
\* bookmarks.
C27_NoTabRepresentsTwoBookmarks ==
    \A i, j \in DOMAIN lastLoaded.shown :
        lastLoaded.shown[i].tab = lastLoaded.shown[j].tab => i = j

\* C28: when every space-creation sequence that was started has returned,
\* isCreatingSpace is false.
C28_FlagClearWhenNoSequenceRuns ==
    (\A p \in Procs : seqs[p].phase \in {"idle", "done"}) => ~isCreatingSpace

\* C29: a tab id is in processingTabMoves only while a call of moveTabToSpace
\* for the tab is between its first and its last line; after the call has
\* returned or failed the id is no longer there.
C29_ProcessingOnlyDuringTheCall ==
    \A t \in processingTabMoves : t \in movingToSpace

\* C30: while the timer of the most recent marking of a tab id has not fired
\* and the move of that marking has not been refused, the id is in
\* syncingToChrome.
C30_MarkedForFullTtl ==
    \A k \in DOMAIN syncTimers : \A id \in syncTimers[k].ids :
        (/\ ~syncTimers[k].failed
         /\ \A j \in (k + 1)..Len(syncTimers) : id \notin syncTimers[j].ids)
        => id \in syncingToChrome


\* C31: the id list the last pass handed to chrome.tabs.move holds only ids of
\* tabs that the query of the pass found in the group of the space, none of a
\* host-pinned tab and none twice; an id of the arrays that is not in the
\* group is not in the list.
C31_OnlyGroupTabsSent ==
    \A k \in DOMAIN lastOp.pass.sent :
        /\ Includes(lastOp.pass.queried, lastOp.pass.sent[k])
        /\ lastOp.pass.sent[k] \notin chromePinned
        /\ \A j \in DOMAIN lastOp.pass.sent :
              j # k => lastOp.pass.sent[j] # lastOp.pass.sent[k]

\* A move was issued for a space whose arrays hold an id that is not in its group.
C31_Witness ==
    /\ lastOp.pass.sent # <<>>
    /\ \E k \in DOMAIN spaces :
          /\ spaces[k].id = lastOp.pass.space
          /\ \E id \in SeqSet(spaces[k].spaceBookmarks) \cup SeqSet(spaces[k].temporaryTabs) :
                ~Includes(lastOp.pass.queried, id)

C33_RenderedThenTheRest ==
    lastDrop.type # "none" =>
        LET n == Len(lastDrop.rendered)
            after == lastDrop.after
        IN /\ Len(after) >= n
           /\ SubSeq(after, 1, n) = lastDrop.rendered
           /\ SeqSet(lastDrop.before) \subseteq SeqSet(after)
           /\ \A k \in (n + 1)..Len(after) : Includes(lastDrop.before, after[k])
           /\ \A j, k \in (n + 1)..Len(after) :
                 j < k => IndexOf(lastDrop.before, after[j]) < IndexOf(lastDrop.before, after[k])
           /\ \A j, k \in DOMAIN after : after[j] = after[k] => j = k

\* A drop on a section whose array held an id that was not rendered, with at
\* least two ids rendered.
C33_Witness ==
    /\ lastDrop.type # "none"
    /\ Len(lastDrop.rendered) >= 2
    /\ \E id \in SeqSet(lastDrop.before) : ~Includes(lastDrop.rendered, id)

\* The folder of the same-titled folders that the merge keeps, and what is
\* left of it in the tree.
KeptFolder(rootFolders, title) == SortByDate(FoldersTitled(rootFolders, title))[1]
KeptNow(title) == NodeById(tree, KeptFolder(lastMerge.found, title).id)
NoTwoSameUrl(children) ==
    \A i, j \in DOMAIN children :
        (children[i].url # NoUrl /\ children[i].url = children[j].url) => i = j

\* C34: after a run in which the host refused no call, a kept folder that held
\* no two bookmarks with the same URL when the run began holds no two
\* bookmarks with the same URL.
C34_KeptFolderGetsNoDuplicateUrl ==
    (lastMerge.runs >= 1 /\ ~lastMerge.failed) =>
        \A title \in FolderTitles :
            (/\ Len(FoldersTitled(lastMerge.found, title)) > 1
             /\ NoTwoSameUrl(KeptFolder(lastMerge.found, title).children))
            => NoTwoSameUrl(KeptNow(title).children)

\* The URLs of the bookmarks in a folder under the root, at any depth.
UrlsIn(folder) ==
    ({folder.children[j].url : j \in DOMAIN folder.children} \ {NoUrl})
    \cup UNION {{folder.children[j].children[i].url : i \in DOMAIN folder.children[j].children} :
                   j \in DOMAIN folder.children}
UrlsTitled(rootFolders, title) ==
    UNION {UrlsIn(rootFolders[k]) : k \in {j \in DOMAIN rootFolders : rootFolders[j].title = title}}

\* C35 (as stated): after a run, every URL that was in one of several folders
\* of a title is in the kept folder, whether or not the host refused a call.
C35_EveryUrlInKeptFolder ==
    lastMerge.runs >= 1 =>
        \A title \in FolderTitles :
            Len(FoldersTitled(lastMerge.found, title)) > 1 =>
                UrlsTitled(lastMerge.found, title) \subseteq UrlsIn(KeptNow(title))

\* C35 (amended): after a run, every URL that was in a folder of a title is
\* in a folder of that title under the root; it is in the kept folder when the
\* host refused no call.
C35_NoUrlLost ==
    lastMerge.runs >= 1 =>
        \A title \in FolderTitles :
            /\ UrlsTitled(lastMerge.found, title) \subseteq UrlsTitled(tree, title)
            /\ (~lastMerge.failed /\ Len(FoldersTitled(lastMerge.found, title)) > 1)
               => UrlsTitled(lastMerge.found, title) \subseteq UrlsIn(KeptNow(title))

\* The host refused a call of the first run, and a URL that only the younger
\* of two folders of a title held in a subfolder is still in that folder,
\* which is still under the root.
C35_Witness ==
    /\ lastMerge.runs = 1
    /\ lastMerge.failed
    /\ \E title \in FolderTitles :
          /\ Len(FoldersTitled(lastMerge.found, title)) = 2
          /\ Len(FoldersTitled(tree, title)) = 2
          /\ \E u \in UrlsTitled(tree, title) :
                /\ u \notin UrlsIn(KeptNow(title))
                /\ \E k \in DOMAIN tree : \E j \in DOMAIN tree[k].children :
                      /\ tree[k].title = title
                      /\ \E i \in DOMAIN tree[k].children[j].children :
                            tree[k].children[j].children[i].url = u

\* ------------------------------------------------- the lists of spaces
\* The title of the folder of the favorites, which is no name of the model's
\* spaces.
FavoritesTitle == MaxNames + 1

\* chrome.bookmarks.getChildren(arcifyFolder.id): the folder of the favorites,
\* created at index 0, and the folders of the spaces.
RECURSIVE FoldersFrom(_, _)
FoldersFrom(st, n) ==
    IF n > MaxNames THEN <<>>
    ELSE [k \in DOMAIN st.folders[n] |-> [title |-> n, url |-> NoUrl]] \o FoldersFrom(st, n + 1)
BarCatChildren(st, favorites) ==
    (IF favorites THEN <<[title |-> FavoritesTitle, url |-> NoUrl]>> ELSE <<>>)
    \o FoldersFrom(st, 1)

\* LocalStorage.getSpaceNames(): the titles of the folders under the root but
\* the folder of the favorites, or the titles of the tab-groups when there is
\* none, sorted and each once.
getSpaceNames(children, groupTitles) ==
    LET folders_ == SelectSeq(children, LAMBDA item : item.url = NoUrl /\ item.title # FavoritesTitle)
        spaceNames == IF folders_ # <<>> THEN {folders_[k].title : k \in DOMAIN folders_}
                      ELSE SeqSet(groupTitles)
    IN [i \in 1..Cardinality(spaceNames) |->
           CHOOSE x \in spaceNames : Cardinality({y \in spaceNames : y < x}) = i - 1]

\* updateSpaceSwitcher(): the buttons of the folders whose title is no name of
\* a space, the folder of the favorites left out.
InactiveButtons(sp, spaceFolders) ==
    LET shown == SelectSeq(spaceFolders, LAMBDA spaceFolder :
                     /\ spaceFolder.title # FavoritesTitle
                     /\ \A i \in DOMAIN sp : sp[i].name # spaceFolder.title)
    IN [k \in DOMAIN shown |-> shown[k].title]

\* showTabContextMenu(...): the items of "Move to Space" for the folders whose
\* title is no name of a space.
inactiveSpaceFolders(sp, allBookmarkSpaceFolders) ==
    LET shown == SelectSeq(allBookmarkSpaceFolders, LAMBDA f :
                     f.url = NoUrl /\ \A i \in DOMAIN sp : sp[i].name # f.title)
    IN [k \in DOMAIN shown |-> shown[k].title]

MenuFrame ==
    /\ UNCHANGED <<spaces, storedSpaces, activeSpaceId, isCreatingSpace, isOpeningBookmark,
                   groupTabs, ungrouped, tabUrl, nextTabId, nextGroupId, spaceElements, rows,
                   bookmarkOnly, folders, nextBookmarkId, pinnedTabStates, lastOp, events,
                   pinVars, moveVars, flagVars, retryVars, spaceVars, pinnedVars,
                   mergeVars, archiveVars, loadVars, dropVars, hostPinVars, switchVars,
                   autoVars>>

\* "Add to Favorites" after the host has pinned the tab:
\* LocalStorage.addFavoriteBookmark makes the folder of the favorites when the
\* root has none.
AddFavoriteBookmark(t) ==
    /\ t \in chromePinned
    /\ ~favoritesFolder
    /\ favoritesFolder' = TRUE
    /\ UNCHANGED lastMenu
    /\ MenuFrame

GetSpaceNames ==
    /\ lastMenu' = [op |-> "getSpaceNames", tab |-> NoTab, active |-> <<>>,
                    inactive |-> getSpaceNames(
                        BarCatChildren(Stores, favoritesFolder),
                        [i \in DOMAIN SelectSeq(spaces, LAMBDA s : GroupExists(Stores, s.id)) |->
                            SelectSeq(spaces, LAMBDA s : GroupExists(Stores, s.id))[i].name])]
    /\ lastMenu' # lastMenu
    /\ UNCHANGED favoritesFolder
    /\ MenuFrame

UpdateSpaceSwitcher ==
    /\ lastMenu' = [op |-> "updateSpaceSwitcher", tab |-> NoTab,
                    active |-> [i \in DOMAIN spaces |-> spaces[i].name],
                    inactive |-> InactiveButtons(spaces, BarCatChildren(Stores, favoritesFolder))]
    /\ lastMenu' # lastMenu
    /\ UNCHANGED favoritesFolder
    /\ MenuFrame

\* The context menu of the row of tab t.
ShowTabContextMenu(t) ==
    /\ RowsOf(Stores, t) # {}
    /\ \E currentSpace \in {SpaceWithTab(spaces, t)} :
          lastMenu' = [op |-> "showTabContextMenu", tab |-> t,
                       active |-> [i \in DOMAIN SelectSeq(spaces, LAMBDA s :
                                        currentSpace = 0 \/ s.id # spaces[currentSpace].id) |->
                                   SelectSeq(spaces, LAMBDA s :
                                        currentSpace = 0 \/ s.id # spaces[currentSpace].id)[i].name],
                       inactive |-> inactiveSpaceFolders(
                                        spaces, BarCatChildren(Stores, favoritesFolder))]
    /\ lastMenu' # lastMenu
    /\ UNCHANGED favoritesFolder
    /\ MenuFrame

NextMenu ==
    \/ \E n \in Names, u \in Urls : CreateNewSpace(n, u)
    \/ \E n \in Names, t \in Tabs : CreateSpaceFromInactive(n, t)
    \/ \E g \in Groups, u \in Urls : DeleteSpace(g, u)
    \/ \E t \in Tabs : TabPinned(t)
    \/ \E t \in Tabs : AddFavoriteBookmark(t)
    \/ GetSpaceNames
    \/ UpdateSpaceSwitcher
    \/ \E t \in Tabs : ShowTabContextMenu(t)

SpecMenu == Init /\ [][NextMenu]_vars

\* C36: no list of spaces holds the title of the folder of the favorites:
\* neither the names getSpaceNames returns, nor the buttons of the space
\* switcher, nor the spaces the context menu of a tab offers to move it to.
C36_FavoritesIsNoSpace ==
    /\ ~Includes(lastMenu.active, FavoritesTitle)
    /\ ~Includes(lastMenu.inactive, FavoritesTitle)

\* ------------------------------------------- switching to a live space
\* chrome.tabGroups.query({}): the tab-groups of the host.
TabGroups(st) == {g \in Groups : st.groupTabs[g] # <<>>}

\* const lastTab = space.lastTab ?? tabs[tabs.length - 1].id
LastTabOrLastOfGroup(st, last, spaceId) ==
    IF last[spaceId] # NoTab THEN last[spaceId]
    ELSE st.groupTabs[spaceId][Len(st.groupTabs[spaceId])]

\* The tabs the host can have active once the groups in closed are collapsed:
\* the tab that was active, or an open tab outside these groups.
HostActiveAfterCollapse(st, active, closed) ==
    {active} \cup {t \in Tabs : IsOpen(st, t) /\ GroupOf(st, t) \notin closed}

\* setActiveSpace(spaceId, updateTab) from its query of the tab-groups on, for
\* a space whose group is live: every other group is collapsed, the group of
\* the space is uncollapsed, and with updateTab the host is asked to make
\* active the lastTab of the space, or the last tab of the group.  The host
\* rejects the update of a tab that is not open.  A host that is busy rejects
\* every call: the rejections of the collapsing are caught, the one of the
\* uncollapsing ends the handler.
setActiveSpaceLive(st, sw, spaceId, updateTab, outcome, hostPick) ==
    LET others == TabGroups(st) \ {spaceId}
        target == LastTabOrLastOfGroup(st, sw.lastTab, spaceId)
        closed == (sw.collapsed \cup others) \ {spaceId}
        active == IF updateTab /\ IsOpen(st, target) THEN target ELSE hostPick
    IN IF outcome # "ok"
       THEN [sw EXCEPT !.lastSwitch =
                [space |-> spaceId, updateTab |-> updateTab, outcome |-> outcome,
                 others |-> others, collapsed |-> sw.collapsed,
                 group |-> st.groupTabs[spaceId], lastTab |-> sw.lastTab[spaceId],
                 target |-> NoTab, active |-> sw.activeTab]]
       ELSE [sw EXCEPT !.collapsed = closed,
                       !.activeTab = active,
                       !.lastSwitch =
                [space |-> spaceId, updateTab |-> updateTab, outcome |-> outcome,
                 others |-> others, collapsed |-> closed,
                 group |-> st.groupTabs[spaceId], lastTab |-> sw.lastTab[spaceId],
                 target |-> IF updateTab THEN target ELSE NoTab, active |-> active]]

SwitchState == [lastTab |-> lastTab, collapsed |-> collapsed, activeTab |-> activeTab,
                lastSwitch |-> lastSwitch]
CommitSwitch(sw) ==
    /\ lastTab' = sw.lastTab
    /\ collapsed' = sw.collapsed
    /\ activeTab' = sw.activeTab
    /\ lastSwitch' = sw.lastSwitch

\* The user picks in the switcher a space whose group is live, the event of
\* the host's last activation of a tab having been handled.
SwitchSpace(spaceId, updateTab, outcome) ==
    /\ HandledHost
    /\ IsOpen(Stores, activeTab)
    /\ SpaceById(spaces, spaceId) # 0
    /\ GroupExists(Stores, spaceId)
    /\ activeSpaceId' = spaceId
    /\ \E hostPick \in HostActiveAfterCollapse(
                           Stores, activeTab, collapsed \cup (TabGroups(Stores) \ {spaceId})) :
          CommitSwitch(setActiveSpaceLive(Stores, SwitchState, spaceId, updateTab, outcome,
                                          hostPick))
    /\ lastOp' = Other
    /\ lastActivated' = Activation(Stores, Stores, spaceId, spaceId, spaceId)
    /\ UNCHANGED <<spaces, storedSpaces, isCreatingSpace, isOpeningBookmark, groupTabs,
                   ungrouped, tabUrl, nextTabId, nextGroupId, spaceElements, rows,
                   bookmarkOnly, folders, nextBookmarkId, pinnedTabStates, lastDeleted,
                   lastClosed>>

\* createNewSpace() with the host's side of it: the new tab is the active tab,
\* and setActiveSpace(space.id) collapses the other groups.  handleTabActivated
\* returns at once while isCreatingSpace is set, so no lastTab is written.
\* The event of the host's last activation of a tab has been handled.
CreateNewSpaceAndSwitch(name, u) ==
    /\ HandledHost
    /\ IsOpen(Stores, activeTab)
    /\ UNCHANGED spaceVars
    /\ createNewSpace(name, u)
    /\ IF activeSpaceId' = nextGroupId /\ nextGroupId' = nextGroupId + 1
       THEN \E st \in {[Stores EXCEPT !.groupTabs = groupTabs']} :
               CommitSwitch(setActiveSpaceLive(
                   st, [SwitchState EXCEPT !.activeTab = nextTabId], nextGroupId, TRUE,
                   "ok", nextTabId))
       ELSE UNCHANGED switchVars

\* The user makes tab t of an expanded group active, or the host makes tab t
\* active when the active tab has been closed; handleTabActivated writes the
\* lastTab of the space holding the tab and makes that space the active one,
\* unless a space is being created.
TabActivated(t) ==
    /\ HandledHost
    /\ UNCHANGED spaceVars
    /\ IsOpen(Stores, t)
    /\ GroupOf(Stores, t) \notin collapsed \/ ~IsOpen(Stores, activeTab)
    /\ activeTab # t
    /\ activeTab' = t
    /\ lastOp' = Other
    /\ IF isCreatingSpace \/ SpaceWithTab(spaces, t) = 0
       THEN UNCHANGED <<lastTab, storedSpaces, activeSpaceId>>
       ELSE /\ lastTab' = [lastTab EXCEPT ![spaces[SpaceWithTab(spaces, t)].id] = t]
            /\ storedSpaces' = spaces
            /\ activeSpaceId' = spaces[SpaceWithTab(spaces, t)].id
    /\ UNCHANGED <<spaces, isCreatingSpace, isOpeningBookmark, groupTabs, ungrouped, tabUrl,
                   nextTabId, nextGroupId, spaceElements, rows, bookmarkOnly, folders,
                   nextBookmarkId, pinnedTabStates, collapsed, lastSwitch>>

NextSwitch ==
    \/ \E t \in Tabs : TabActivated(t)
    \/ \E t \in Tabs : HandleTabRemove(t)
    \/ \E n \in Names \cup {NoName}, u \in Urls : CreateNewSpaceAndSwitch(n, u)
    \/ \E g \in Groups, updateTab \in BOOLEAN, o \in {"ok", "busy"} : SwitchSpace(g, updateTab, o)

SpecSwitch == Init /\ [][NextSwitch]_vars

\* C37: a switch to a space with a live group, the host having accepted its
\* calls, leaves every other tab-group collapsed and the group of the space
\* expanded; with updateTab it asks the host to make active the lastTab of the
\* space, or the last tab of the group when the space has none, and a tab of
\* the group is the active tab when the switch ends.
C37_SwitchActivatesTabOfGroup ==
    (lastSwitch.space # NoSpace /\ lastSwitch.outcome = "ok") =>
        /\ lastSwitch.others \subseteq lastSwitch.collapsed
        /\ lastSwitch.space \notin lastSwitch.collapsed
        /\ lastSwitch.updateTab =>
              /\ lastSwitch.target = IF lastSwitch.lastTab # NoTab THEN lastSwitch.lastTab
                                     ELSE lastSwitch.group[Len(lastSwitch.group)]
              /\ Includes(lastSwitch.group, lastSwitch.active)

\* ------------------------------------------------- the auto-archive check
\* The clock of this part counts minutes, and so does the idle threshold.

\* The URLs runAutoArchiveCheck collects from the stored spaces: a bookmark
\* that is a string, or the url of a bookmark that has one.  spaceBookmarks
\* holds tab ids, which are numbers, so nothing is collected.
bookmarkedUrls(sp) == {}

\* updateTabLastActivity(tabId) / removeTabLastActivity(tabId)
updateTabLastActivity(activityData, tabId, at) == [activityData EXCEPT ![tabId] = at]
removeTabLastActivity(activityData, tabId) == [activityData EXCEPT ![tabId] = 0]

\* The first loop of runAutoArchiveCheck over the tabs the host does not have
\* pinned, in the order of their ids: an audible or active tab gets its
\* timestamp written and is skipped, and so is a tab whose URL is among the
\* bookmarked URLs; a tab without a record, or with a record older than the
\* threshold, is to be archived.  tabActivity is what was read before the loop.
RECURSIVE ArchiveCandidates(_, _, _, _, _, _)
ArchiveCandidates(st, acc, tabActivity, t, idleThreshold, at) ==
    IF t > MaxTabs THEN acc
    ELSE ArchiveCandidates(st,
            IF ~IsOpen(st, t) \/ t \in acc.hostPinned THEN acc
            ELSE IF t \in acc.audible \/ t = acc.active
            THEN [acc EXCEPT !.activity = updateTabLastActivity(@, t, at)]
            ELSE IF st.tabUrl[t] \in bookmarkedUrls(st.storedSpaces)
            THEN [acc EXCEPT !.activity = updateTabLastActivity(@, t, at)]
            ELSE IF tabActivity[t] = 0 \/ at - tabActivity[t] > idleThreshold
            THEN [acc EXCEPT !.tabsToArchive = Append(@, t)]
            ELSE acc,
            tabActivity, t + 1, idleThreshold, at)

\* The second loop: a tab that is in a group is archived under the id of its
\* group, closed, and its timestamp removed.
RECURSIVE ArchiveAndClose(_, _, _)
ArchiveAndClose(acc, k, at) ==
    IF k > Len(acc.tabsToArchive) THEN acc
    ELSE LET t == acc.tabsToArchive[k]
             spaceId == GroupOf(acc.st, t)
         IN ArchiveAndClose(
                IF spaceId = NoSpace THEN acc
                ELSE [acc EXCEPT
                        !.archived = addArchivedTab(@, acc.st.tabUrl[t], 1, spaceId, at).toSave,
                        !.st = TabsRemove(@, t),
                        !.activity = removeTabLastActivity(@, t),
                        !.closed = @ \cup {t}],
                k + 1, at)

\* runAutoArchiveCheck()
runAutoArchiveCheck(st, set, tabActivity, active, loud, hostPinned, archived, at) ==
    LET start == [st |-> st, activity |-> tabActivity, archived |-> archived,
                  active |-> active, audible |-> loud, hostPinned |-> hostPinned,
                  tabsToArchive |-> <<>>, closed |-> {}]
    IN IF ~set.autoArchiveEnabled \/ set.autoArchiveIdleMinutes <= 0 THEN start
       ELSE ArchiveAndClose(
                ArchiveCandidates(st, start, tabActivity, 1, set.autoArchiveIdleMinutes, at),
                1, at)

\* Every step of this part counts as an event of the session.
AutoFrame ==
    /\ events < MaxEvents
    /\ events' = events + 1
    /\ UNCHANGED <<spaces, storedSpaces, activeSpaceId, isCreatingSpace, isOpeningBookmark,
                nextTabId, nextGroupId, spaceElements, rows, bookmarkOnly, folders,
                nextBookmarkId, pinnedTabStates, lastOp, pinVars, moveVars, flagVars,
                retryVars, spaceVars, pinnedVars, mergeVars, loadVars, dropVars, menuVars,
                hostPinVars, lastTab, collapsed, lastSwitch, archiveCalls, archiveEvents,
                lastArchived, lastSaved>>

\* The options page writes the settings.
SetSettings(enabled, minutes) ==
    /\ settings' = [autoArchiveEnabled |-> enabled, autoArchiveIdleMinutes |-> minutes]
    /\ settings' # settings
    /\ UNCHANGED <<tabLastActivity, audible, idleSince, lastCheck, activeTab, now,
                   archivedTabs, groupTabs, ungrouped, tabUrl>>
    /\ AutoFrame

\* A minute passes; the active tab and the audible tabs have been so till now.
MinutePasses ==
    /\ now < MAX_ARCHIVED_TABS + 1 + MaxMinutes
    /\ now' = now + 1
    /\ idleSince' = [t \in Tabs |->
                        IF IsOpen(Stores, t) /\ (t = activeTab \/ t \in audible) THEN now'
                        ELSE idleSince[t]]
    /\ UNCHANGED <<settings, tabLastActivity, audible, lastCheck, activeTab, archivedTabs,
                   groupTabs, ungrouped, tabUrl>>
    /\ AutoFrame

\* chrome.tabs.onActivated in the background: the timestamp of the tab is
\* written.
OnActivated(t) ==
    /\ IsOpen(Stores, t)
    /\ t # activeTab
    /\ activeTab' = t
    /\ tabLastActivity' = updateTabLastActivity(tabLastActivity, t, now)
    /\ idleSince' = [q \in Tabs |-> IF q = t \/ q = activeTab THEN now ELSE idleSince[q]]
    /\ UNCHANGED <<settings, audible, lastCheck, now, archivedTabs, groupTabs, ungrouped,
                   tabUrl>>
    /\ AutoFrame

\* chrome.tabs.onUpdated in the background with changeInfo.audible: the
\* timestamp is written when the tab is active or audible.
OnAudibleChanged(t) ==
    /\ IsOpen(Stores, t)
    /\ audible' = IF t \in audible THEN audible \ {t} ELSE audible \cup {t}
    /\ tabLastActivity' = IF t = activeTab \/ t \in audible'
                          THEN updateTabLastActivity(tabLastActivity, t, now)
                          ELSE tabLastActivity
    /\ idleSince' = [idleSince EXCEPT ![t] = now]
    /\ UNCHANGED <<settings, lastCheck, activeTab, now, archivedTabs, groupTabs, ungrouped,
                   tabUrl>>
    /\ AutoFrame

\* The alarm fires: runAutoArchiveCheck reads the settings, the timestamps and
\* the stored spaces, and archives and closes the idle tabs.
RunAutoArchiveCheck ==
    /\ \E r \in {runAutoArchiveCheck(Stores, settings, tabLastActivity, activeTab, audible,
                                     chromePinned, archivedTabs, now)} :
          /\ groupTabs' = r.st.groupTabs
          /\ ungrouped' = r.st.ungrouped
          /\ tabUrl' = r.st.tabUrl
          /\ archivedTabs' = r.archived
          /\ tabLastActivity' = r.activity
          /\ audible' = audible \ r.closed
          /\ lastCheck' = [ran |-> TRUE, enabled |-> settings.autoArchiveEnabled,
                           minutes |-> settings.autoArchiveIdleMinutes, at |-> now,
                           closed |-> r.closed,
                           pinned |-> UNION {SeqSet(storedSpaces[i].spaceBookmarks) :
                                                i \in DOMAIN storedSpaces},
                           active |-> activeTab, audible |-> audible,
                           idleSince |-> idleSince]
    /\ lastCheck' # lastCheck
    /\ UNCHANGED <<settings, idleSince, activeTab, now>>
    /\ AutoFrame

NextAutoArchive ==
    \/ \E g \in Groups \cup {NoSpace}, u \in Urls : HandleTabCreated(g, u)
    \/ \E t \in Tabs, o \in Outcomes, passFirst \in BOOLEAN : QuickPin(t, o, passFirst)
    \/ \E enabled \in BOOLEAN, minutes \in 0..MaxIdleMinutes : SetSettings(enabled, minutes)
    \/ MinutePasses
    \/ \E t \in Tabs : OnActivated(t)
    \/ \E t \in Tabs : OnAudibleChanged(t)
    \/ RunAutoArchiveCheck

SpecAutoArchive == Init /\ [][NextAutoArchive]_vars

\* C38: the auto-archive check closes no tab whose id is in the spaceBookmarks
\* of a stored space.
C38_NoSpacePinnedTabArchived ==
    lastCheck.ran => lastCheck.closed \cap lastCheck.pinned = {}

\* C39: the auto-archive check closes a tab only when auto-archive is enabled,
\* the tab is neither active nor audible, and more than autoArchiveIdleMinutes
\* have passed since it last was.
C39_ClosedOnlyAfterIdleTime ==
    lastCheck.ran =>
        \A t \in lastCheck.closed :
            /\ lastCheck.enabled
            /\ t # lastCheck.active
            /\ t \notin lastCheck.audible
            /\ lastCheck.at - lastCheck.idleSince[t] > lastCheck.minutes

\* ------------------------------------------------ the active space's id
\* chrome.tabGroups.onRemoved for a group that is gone: handleTabGroupRemoved
\* writes nothing of the sidebar's; when the group was the active space it
\* asks the host to make active the lastTab of the previously used space or,
\* failing that, the first of the remaining tabs.  The model keeps neither
\* previousSpaceId nor the order of the tabs of the window, so the tab is any
\* open tab.
HandleTabGroupRemoved(groupId) ==
    /\ HandledHost
    /\ UNCHANGED spaceVars
    /\ groupId < nextGroupId
    /\ ~GroupExists(Stores, groupId)
    /\ IF groupId = activeSpaceId /\ \E t \in Tabs : IsOpen(Stores, t)
       THEN \E t \in Tabs : IsOpen(Stores, t) /\ activeTab' = t
       ELSE UNCHANGED activeTab
    /\ lastOp' = Other
    /\ UNCHANGED <<spaces, storedSpaces, activeSpaceId, isCreatingSpace, isOpeningBookmark,
                   groupTabs, ungrouped, tabUrl, nextTabId, nextGroupId, spaceElements, rows,
                   bookmarkOnly, folders, nextBookmarkId, pinnedTabStates, lastTab, collapsed,
                   lastSwitch>>

NextActive ==
    \/ \E g \in Groups \cup {NoSpace}, u \in Urls : HandleTabCreated(g, u)
    \/ \E t \in Tabs : HandleTabRemove(t)
    \/ \E n \in Names \cup {NoName}, u \in Urls : CreateNewSpace(n, u)
    \/ \E n \in Names, t \in Tabs : CreateSpaceFromInactive(n, t)
    \/ \E g \in Groups, u \in Urls : SetActiveSpace(g, u)
    \/ \E t \in Tabs : HandleTabActivated(t)
    \/ \E g \in Groups, u \in Urls : DeleteSpace(g, u)
    \/ \E g \in Groups : HandleTabGroupRemoved(g)

SpecActive == Init /\ [][NextActive]_vars

\* C40: activeSpaceId is null or the id of a space of the spaces array.
C40_ActiveSpaceIsPresent ==
    activeSpaceId = NoSpace \/ SpaceById(spaces, activeSpaceId) # 0

====
